---- MODULE Spec2Model ----
(***************************************************************************)
(* file-upload-service: capability tokens for uploads and downloads over   *)
(* a client / bucket / key namespace stored on the local filesystem.       *)
(*                                                                         *)
(* Strings that the handlers only compare (client ids, messages, file      *)
(* names) are TLA+ strings.  Strings that the handlers take apart (keys,   *)
(* names joined into paths) are sequences of symbols: "/" and "." are the  *)
(* separator and the dot, every other symbol is an opaque run of ordinary  *)
(* characters.                                                             *)
(***************************************************************************)
EXTENDS Integers, Sequences, FiniteSets, TLC

VARIABLES
    now,        \* wall clock, in minutes
    buckets,    \* table buckets: id -> row
    files,      \* table files: sequence of rows, the row's id is its index
    cache,      \* the TTL cache: namespaced key -> [data, expires]
    nextToken,  \* number of tokens drawn from crypto/rand so far, plus one
    disk,       \* regular files under the working directory: path -> content
    dirs,       \* directories under the working directory
    reqs,       \* redemption requests in flight: slot -> position and locals
    resp,       \* the response written by the handler that answered last
    hist        \* ledger of every cache key ever set (history variable)

vars == <<now, buckets, files, cache, nextToken, disk, dirs, reqs, resp, hist>>

----------------------------------------------------------------------------
(* Bounds of the model                                                     *)

MaxFiles == 1
MaxTokens == 2
MaxTime == 20
TickStep == 10
MaxReqs == 2

(* ttl := 15 * time.Minute                                                 *)
TTL == 15

----------------------------------------------------------------------------
(* Strings and paths: path/filepath on a Unix build                        *)

Sep == "/"
Dot == "."
DotDot == <<Dot, Dot>>

RECURSIVE Split(_)
(* strings.Split(s, "/"): the segments between separators                  *)
Split(s) ==
    IF s = <<>> THEN << <<>> >>
    ELSE LET rest == Split(Tail(s)) IN
         IF Head(s) = Sep THEN << <<>> >> \o rest
         ELSE << <<Head(s)>> \o Head(rest) >> \o Tail(rest)

RECURSIVE JoinSegs(_)
(* strings.Join(segs, "/")                                                 *)
JoinSegs(segs) ==
    IF segs = <<>> THEN <<>>
    ELSE IF Len(segs) = 1 THEN segs[1]
    ELSE segs[1] \o <<Sep>> \o JoinSegs(Tail(segs))

RECURSIVE CleanSegs(_, _, _)
(* The element loop of filepath.Clean: empty and "." elements are dropped, *)
(* ".." removes the element before it, or stays when there is none to      *)
(* remove and the path is not rooted.                                      *)
CleanSegs(segs, rooted, out) ==
    IF segs = <<>> THEN out
    ELSE LET e == Head(segs)
             rest == Tail(segs)
         IN  IF e = <<>> \/ e = <<Dot>> THEN CleanSegs(rest, rooted, out)
             ELSE IF e = DotDot THEN
                 IF out # <<>> /\ out[Len(out)] # DotDot
                 THEN CleanSegs(rest, rooted, SubSeq(out, 1, Len(out) - 1))
                 ELSE IF ~rooted THEN CleanSegs(rest, rooted, Append(out, e))
                 ELSE CleanSegs(rest, rooted, out)
             ELSE CleanSegs(rest, rooted, Append(out, e))

(* filepath.Clean                                                          *)
Clean(path) ==
    IF path = <<>> THEN <<Dot>>
    ELSE LET rooted == path[1] = Sep
             segs == CleanSegs(Split(path), rooted, <<>>)
         IN  IF rooted THEN <<Sep>> \o JoinSegs(segs)
             ELSE IF segs = <<>> THEN <<Dot>>
             ELSE JoinSegs(segs)

(* filepath.Join: empty elements are ignored, the result is Cleaned        *)
Join(elems) ==
    LET ne == SelectSeq(elems, LAMBDA e : e # <<>>)
    IN  IF ne = <<>> THEN <<>> ELSE Clean(JoinSegs(ne))

(* Index of the last separator of s, 0 when it has none                    *)
LastSep(s) ==
    LET at == {i \in 1..Len(s) : s[i] = Sep}
    IN  IF at = {} THEN 0 ELSE CHOOSE i \in at : \A j \in at : j <= i

(* filepath.Dir: everything up to the last separator, Cleaned              *)
Dir(path) == Clean(SubSeq(path, 1, LastSep(path)))

(* The directories os.MkdirAll(dir) has to find or make: dir and each of   *)
(* its parents.                                                            *)
Ancestors(dir) ==
    IF dir = <<Dot>> THEN {}
    ELSE LET segs == Split(dir)
         IN  {JoinSegs(SubSeq(segs, 1, k)) : k \in 1..Len(segs)}

----------------------------------------------------------------------------
(* Tables                                                                  *)

ClientIDs == {"c1", "c2"}

(* clients.name by clients.client_id                                       *)
clientName(c) == IF c = "c1" THEN <<"p">> ELSE <<"q">>

BucketIDs == {1}

(* The keys, file sizes and bodies that requests carry                     *)
Keys == { <<"a">>, <<"a", Sep, Dot, Dot, Sep, "a", Sep, "b">> }

FileSizes == {0, 2}

Bodies == { [size |-> 2, data |-> "y"], [size |-> 3, data |-> "z"] }

NoVal == <<>>

Response(op, status, msg, val) == [op |-> op, status |-> status, msg |-> msg, val |-> val]

----------------------------------------------------------------------------
(* The TTL cache (cache.Cache over Redis): Set with expiry, Get, Delete    *)

(* One namespace for both kinds of token                                   *)
CacheKeyShared(ns, token) == <<"token", token>>

CacheKey(ns, token) == <<ns, token>>

(* cache.Set(key, data, ttl)                                               *)
CacheSet(c, key, data, t) ==
    [k \in DOMAIN c \cup {key} |->
        IF k = key THEN [data |-> data, expires |-> t + TTL] ELSE c[k]]

(* A cache that never expires its entries                                  *)
CacheHitForever(c, key, t) == key \in DOMAIN c

(* cache.Get(key) returns an error for a key that is absent or expired     *)
CacheHit(c, key, t) == key \in DOMAIN c /\ t < c[key].expires

(* cache.Delete(key)                                                       *)
CacheDelete(c, key) == [k \in DOMAIN c \ {key} |-> c[k]]

----------------------------------------------------------------------------
(* Initial state: the schema is migrated, two clients are registered and   *)
(* the first has created a bucket; nothing has been uploaded.              *)

Idle == [op |-> "none", pc |-> "idle", token |-> 0, data |-> NoVal, written |-> 0]

Slots == 1..MaxReqs

Init ==
    /\ now = 0
    /\ buckets = [b \in BucketIDs |-> [client_id |-> "c1", name |-> <<"m">>, archived |-> FALSE]]
    /\ files = <<>>
    /\ cache = <<>>
    /\ nextToken = 1
    /\ disk = <<>>
    /\ dirs = {}
    /\ reqs = [r \in Slots |-> Idle]
    /\ resp = Response("none", 0, "", NoVal)
    /\ hist = <<>>

(* A handler that answers and changes nothing else                         *)
Reply(r) ==
    /\ resp' = r
    /\ UNCHANGED <<now, buckets, files, cache, nextToken, disk, dirs, reqs, hist>>

(* Time passes                                                             *)
Tick ==
    /\ now + TickStep <= MaxTime
    /\ now' = now + TickStep
    /\ UNCHANGED <<buckets, files, cache, nextToken, disk, dirs, reqs, resp, hist>>

----------------------------------------------------------------------------
(* BucketHandler.ArchiveBucket: POST /buckets/{id}/archive                 *)

ArchiveBucket(c, id) ==
    IF id \in DOMAIN buckets /\ buckets[id].client_id = c /\ ~buckets[id].archived
    THEN /\ buckets' = [buckets EXCEPT ![id].archived = TRUE]
         /\ resp' = Response("ArchiveBucket", 200, "", [id |-> id, archived |-> TRUE])
         /\ UNCHANGED <<now, files, cache, nextToken, disk, dirs, reqs, hist>>
    ELSE IF ~(id \in DOMAIN buckets /\ buckets[id].client_id = c)
    THEN Reply(Response("ArchiveBucket", 404, "Bucket not found", NoVal))
    ELSE Reply(Response("ArchiveBucket", 409, "Bucket is already archived", NoVal))

----------------------------------------------------------------------------
(* FileHandler.GenerateSignedURL: POST /files/signed-url                   *)

OK == "ok"

(* The field checks with the size looked at before the key and the name    *)
ValidateSignedURLRequestSwapped(req) ==
    IF req.bucket_id <= 0 THEN "bucket_id is required and must be a positive integer"
    ELSE IF req.file_size <= 0 THEN "file_size must be greater than 0"
    ELSE IF req.key = <<>> THEN "key is required"
    ELSE IF req.file_name = "" THEN "file_name is required"
    ELSE IF req.mimetype = "" THEN "mimetype is required"
    ELSE IF req.owner_entity_type = "" THEN "owner_entity_type is required"
    ELSE IF req.owner_entity_id = "" THEN "owner_entity_id is required"
    ELSE "ok"

(* The field checks, in the order the handler makes them                   *)
ValidateSignedURLRequest(req) ==
    IF req.bucket_id <= 0 THEN "bucket_id is required and must be a positive integer"
    ELSE IF req.key = <<>> THEN "key is required"
    ELSE IF req.file_name = "" THEN "file_name is required"
    ELSE IF req.file_size <= 0 THEN "file_size must be greater than 0"
    ELSE IF req.mimetype = "" THEN "mimetype is required"
    ELSE IF req.owner_entity_type = "" THEN "owner_entity_type is required"
    ELSE IF req.owner_entity_id = "" THEN "owner_entity_id is required"
    ELSE OK

(* The bucket gate without the archived check                              *)
CheckUploadBucketNoArchive(c, id) ==
    IF id \notin DOMAIN buckets
    THEN [status |-> 404, msg |-> "Bucket not found"]
    ELSE IF buckets[id].client_id # c
    THEN [status |-> 403, msg |-> "Access denied: bucket does not belong to your account"]
    ELSE [status |-> 0, msg |-> "ok"]

(* The bucket must exist, belong to the client and not be archived         *)
CheckUploadBucket(c, id) ==
    IF id \notin DOMAIN buckets
    THEN [status |-> 404, msg |-> "Bucket not found"]
    ELSE IF buckets[id].client_id # c
    THEN [status |-> 403, msg |-> "Access denied: bucket does not belong to your account"]
    ELSE IF buckets[id].archived
    THEN [status |-> 409, msg |-> "Cannot upload to an archived bucket"]
    ELSE [status |-> 0, msg |-> OK]

(* The three names put together with separators and not cleaned           *)
ResolveFilePathRaw(cname, bname, key) == JoinSegs(<<cname, bname, key>>)

(* filePath := filepath.Join(clientName, bucketName, req.Key)              *)
ResolveFilePath(cname, bname, key) == Join(<<cname, bname, key>>)

FileRow(id, c, req) ==
    [id |-> id, file_name |-> req.file_name, file_size |-> req.file_size,
     mimetype |-> req.mimetype, client_id |-> c, bucket_id |-> req.bucket_id,
     key |-> req.key, owner_entity_type |-> req.owner_entity_type,
     owner_entity_id |-> req.owner_entity_id, deleted |-> FALSE]

UploadTokenData(id, c, req, path) ==
    [file_id |-> id, file_name |-> req.file_name, file_size |-> req.file_size,
     mimetype |-> req.mimetype, client_id |-> c, bucket_id |-> req.bucket_id,
     file_path |-> path, owner_entity_type |-> req.owner_entity_type,
     owner_entity_id |-> req.owner_entity_id]

Ledger(h, key, t) ==
    [k \in DOMAIN h \cup {key} |->
        IF k = key THEN [at |-> t, ok |-> 0, rejected |-> FALSE, created |-> FALSE] ELSE h[k]]

(* rows: how many rows the table may hold before the model stops issuing   *)
GenerateSignedURLWithin(c, req, rows) ==
    LET v == ValidateSignedURLRequest(req)
        g == CheckUploadBucket(c, req.bucket_id)
        to == [client |-> c, req |-> req]
    IN  IF v # OK THEN Reply(Response("GenerateSignedURL", 400, v, to))
        ELSE IF g.status # 0 THEN Reply(Response("GenerateSignedURL", g.status, g.msg, to))
        ELSE LET fileID == Len(files) + 1
                 filePath == ResolveFilePath(clientName(c), buckets[req.bucket_id].name, req.key)
                 key == CacheKey("upload", nextToken)
             IN  /\ Len(files) < rows
                 /\ nextToken <= MaxTokens
                 /\ files' = Append(files, FileRow(fileID, c, req))
                 /\ nextToken' = nextToken + 1
                 /\ cache' = CacheSet(cache, key, UploadTokenData(fileID, c, req, filePath), now)
                 /\ hist' = Ledger(hist, key, now)
                 /\ resp' = Response("GenerateSignedURL", 201, "",
                                     [client |-> c, req |-> req, file_id |-> fileID,
                                      token |-> nextToken, expires_at |-> now + TTL])
                 /\ UNCHANGED <<now, buckets, disk, dirs, reqs>>

GenerateSignedURL(c, req) == GenerateSignedURLWithin(c, req, MaxFiles)

----------------------------------------------------------------------------
(* FileHandler.UploadFile: POST /files/upload?token=...                    *)
(* The handler makes three round trips: cache.Get, the filesystem write,   *)
(* cache.Delete.  Requests run concurrently, so each round trip is a step. *)

UploadsRoot == <<Dot, Sep, "uploads">>

(* absFilePath := filepath.Join("./uploads", tokenData.FilePath)           *)
AbsFilePath(path) == Join(<<UploadsRoot, path>>)

(* The lowest free slot takes the next request                             *)
FreeSlot(r) == reqs[r].pc = "idle" /\ \A q \in Slots : q < r => reqs[q].pc # "idle"

(* A fetch that takes the token out of the cache as it reads it            *)
UploadFetchTakes(r, t) ==
    /\ FreeSlot(r)
    /\ IF t = 0
       THEN Reply(Response("UploadFile", 400, "Missing upload token", [token |-> t]))
       ELSE IF ~CacheHit(cache, CacheKey("upload", t), now)
       THEN Reply(Response("UploadFile", 401, "Invalid or expired upload token", [token |-> t]))
       ELSE /\ reqs' = [reqs EXCEPT ![r] = [op |-> "UploadFile", pc |-> "fetched", token |-> t,
                                            data |-> cache[CacheKey("upload", t)].data,
                                            written |-> 0]]
            /\ cache' = CacheDelete(cache, CacheKey("upload", t))
            /\ UNCHANGED <<now, buckets, files, nextToken, disk, dirs, resp, hist>>

(* A fetch that tells an expired token from one it has never seen          *)
UploadFetchTells(r, t) ==
    /\ FreeSlot(r)
    /\ IF t = 0
       THEN Reply(Response("UploadFile", 400, "Missing upload token", [token |-> t]))
       ELSE IF CacheKey("upload", t) \notin DOMAIN cache
       THEN Reply(Response("UploadFile", 401, "Invalid or expired upload token", [token |-> t]))
       ELSE IF ~CacheHit(cache, CacheKey("upload", t), now)
       THEN Reply(Response("UploadFile", 401, "Upload token has expired", [token |-> t]))
       ELSE /\ reqs' = [reqs EXCEPT ![r] = [op |-> "UploadFile", pc |-> "fetched", token |-> t,
                                            data |-> cache[CacheKey("upload", t)].data,
                                            written |-> 0]]
            /\ UNCHANGED <<now, buckets, files, cache, nextToken, disk, dirs, resp, hist>>

UploadFetch(r, t) ==
    /\ FreeSlot(r)
    /\ IF t = 0
       THEN Reply(Response("UploadFile", 400, "Missing upload token", [token |-> t]))
       ELSE IF ~CacheHit(cache, CacheKey("upload", t), now)
       THEN Reply(Response("UploadFile", 401, "Invalid or expired upload token", [token |-> t]))
       ELSE /\ reqs' = [reqs EXCEPT ![r] = [op |-> "UploadFile", pc |-> "fetched", token |-> t,
                                            data |-> cache[CacheKey("upload", t)].data,
                                            written |-> 0]]
            /\ UNCHANGED <<now, buckets, files, cache, nextToken, disk, dirs, resp, hist>>

(* A size check that lets one unit too many through                        *)
ExceedsLimitByTwo(size, limit) == size > limit + 1

(* if header.Size > tokenData.FileSize                                     *)
ExceedsLimit(size, limit) == size > limit

(* os.MkdirAll fails when a component of the directory is a regular file   *)
MkdirAllFails(dir) == \E a \in Ancestors(dir) : a \in DOMAIN disk

(* os.Create fails when the path is a directory                            *)
CreateFails(path, ds) == path \in ds

(* A file that os.Create has made or emptied and io.Copy has not filled    *)
Truncated == [size |-> 0, data |-> ""]

(* A create that leaves a file that is already there as it is             *)
WriteFileKeepsExisting(d, path, content) ==
    [p \in DOMAIN d \cup {path} |-> IF p = path /\ p \notin DOMAIN d THEN content ELSE d[p]]

WriteFile(d, path, content) ==
    [p \in DOMAIN d \cup {path} |-> IF p = path THEN content ELSE d[p]]

(* The request answers with an error and ends                              *)
UploadAbort(r, status, msg) ==
    /\ reqs' = [reqs EXCEPT ![r] = Idle]
    /\ resp' = Response("UploadFile", status, msg, [token |-> reqs[r].token])

(* A size check that deletes the token as it rejects                       *)
RejectOversizeBurns(r) ==
    /\ UploadAbort(r, 400, "File size exceeds allowed limit")
    /\ hist' = [hist EXCEPT ![CacheKey("upload", reqs[r].token)].rejected = TRUE]
    /\ cache' = CacheDelete(cache, CacheKey("upload", reqs[r].token))
    /\ UNCHANGED <<disk, dirs>>

(* The size check fails: 400, and the handler returns                      *)
RejectOversize(r) ==
    /\ UploadAbort(r, 400, "File size exceeds allowed limit")
    /\ hist' = [hist EXCEPT ![CacheKey("upload", reqs[r].token)].rejected = TRUE]
    /\ UNCHANGED <<cache, disk, dirs>>

(* io.Copy fails after os.Create has made or emptied the file: 500, and    *)
(* the handler returns                                                     *)
FailCopy(r, abs, dir) ==
    /\ UploadAbort(r, 500, "Failed to save file")
    /\ dirs' = dirs \cup Ancestors(dir)
    /\ disk' = WriteFile(disk, abs, Truncated)
    /\ hist' = [hist EXCEPT ![CacheKey("upload", reqs[r].token)].created = TRUE]
    /\ UNCHANGED cache

(* form: what r.ParseMultipartForm and r.FormFile find in the request;     *)
(* fault: io.Copy fails.                                                   *)
UploadStore(r, form, body, fault) ==
    LET data == reqs[r].data
        abs == AbsFilePath(data.file_path)
        dir == Dir(abs)
    IN  /\ reqs[r].op = "UploadFile" /\ reqs[r].pc = "fetched"
        /\ UNCHANGED <<now, buckets, files, nextToken>>
        /\ IF form = "malformed"
           THEN /\ UploadAbort(r, 400, "Failed to parse upload form")
                /\ UNCHANGED <<cache, disk, dirs, hist>>
           ELSE IF form = "nofile"
           THEN /\ UploadAbort(r, 400, "Missing file in upload")
                /\ UNCHANGED <<cache, disk, dirs, hist>>
           ELSE IF ExceedsLimit(body.size, data.file_size)
           THEN RejectOversize(r)
           ELSE IF MkdirAllFails(dir)
           THEN /\ UploadAbort(r, 500, "Failed to prepare upload storage")
                /\ UNCHANGED <<cache, disk, dirs, hist>>
           ELSE IF CreateFails(abs, dirs \cup Ancestors(dir))
           THEN /\ UploadAbort(r, 500, "Failed to save file")
                /\ dirs' = dirs \cup Ancestors(dir)
                /\ UNCHANGED <<cache, disk, hist>>
           ELSE IF fault
           THEN FailCopy(r, abs, dir)
           ELSE /\ reqs' = [reqs EXCEPT ![r].pc = "stored", ![r].written = body.size]
                /\ dirs' = dirs \cup Ancestors(dir)
                /\ disk' = WriteFile(disk, abs, body)
                /\ hist' = [hist EXCEPT ![CacheKey("upload", reqs[r].token)].created = TRUE]
                /\ UNCHANGED <<cache, resp>>

(* The 200 response without the cache.Delete                               *)
UploadDeleteKeepsToken(r) ==
    LET key == CacheKey("upload", reqs[r].token)
        data == reqs[r].data
    IN  /\ reqs[r].op = "UploadFile" /\ reqs[r].pc = "stored"
        /\ hist' = [hist EXCEPT ![key].ok = @ + 1]
        /\ reqs' = [reqs EXCEPT ![r] = Idle]
        /\ resp' = Response("UploadFile", 200, "File uploaded successfully",
                            [token |-> reqs[r].token, file_id |-> data.file_id,
                             file_size |-> reqs[r].written,
                             saved_path |-> AbsFilePath(data.file_path)])
        /\ UNCHANGED <<now, buckets, files, cache, nextToken, disk, dirs>>

(* h.cache.Delete("upload:" + token), then the 200 response                *)
UploadDelete(r) ==
    LET key == CacheKey("upload", reqs[r].token)
        data == reqs[r].data
    IN  /\ reqs[r].op = "UploadFile" /\ reqs[r].pc = "stored"
        /\ cache' = CacheDelete(cache, key)
        /\ hist' = [hist EXCEPT ![key].ok = @ + 1]
        /\ reqs' = [reqs EXCEPT ![r] = Idle]
        /\ resp' = Response("UploadFile", 200, "File uploaded successfully",
                            [token |-> reqs[r].token, file_id |-> data.file_id,
                             file_size |-> reqs[r].written,
                             saved_path |-> AbsFilePath(data.file_path)])
        /\ UNCHANGED <<now, buckets, files, nextToken, disk, dirs>>

----------------------------------------------------------------------------
(* FileHandler.GenerateDownloadSignedURL: POST /files/download-url         *)

(* os.Stat(path) finds a file or a directory                               *)
PathExists(path) == path \in DOMAIN disk \/ path \in dirs

(* os.IsNotExist(err) after os.Stat(path): true only when nothing is at    *)
(* the path and no directory on the way to it is a regular file (that is   *)
(* ENOTDIR, which is not a not-exist error)                                *)
StatNotExist(path) ==
    /\ ~PathExists(path)
    /\ ~\E a \in Ancestors(Dir(path)) : a \in DOMAIN disk

DownloadTokenData(row, c, path) ==
    [file_id |-> row.id, file_name |-> row.file_name, mimetype |-> row.mimetype,
     client_id |-> c, bucket_id |-> row.bucket_id, file_path |-> path]

GenerateDownloadSignedURL(c, id) ==
    IF id = 0
    THEN Reply(Response("GenerateDownloadSignedURL", 400, "file_id is required", NoVal))
    ELSE IF ~(id \in DOMAIN files /\ ~files[id].deleted)
    THEN Reply(Response("GenerateDownloadSignedURL", 404, "File not found", NoVal))
    ELSE IF files[id].client_id # c
    THEN Reply(Response("GenerateDownloadSignedURL", 403, "Access denied", NoVal))
    ELSE LET row == files[id]
             path == ResolveFilePath(clientName(row.client_id), buckets[row.bucket_id].name, row.key)
             key == CacheKey("download", nextToken)
         IN  IF StatNotExist(AbsFilePath(path))
             THEN Reply(Response("GenerateDownloadSignedURL", 404, "File content not found", NoVal))
             ELSE /\ nextToken <= MaxTokens
                  /\ nextToken' = nextToken + 1
                  /\ cache' = CacheSet(cache, key, DownloadTokenData(row, c, path), now)
                  /\ hist' = Ledger(hist, key, now)
                  /\ resp' = Response("GenerateDownloadSignedURL", 201, "",
                                      [file_id |-> id, token |-> nextToken, expires_at |-> now + TTL])
                  /\ UNCHANGED <<now, buckets, files, disk, dirs, reqs>>

----------------------------------------------------------------------------
(* FileHandler.DownloadFile: GET /files/download?token=...                 *)

(* A fetch that looks the object's row up again and refuses a deleted one  *)
DownloadFetchChecksRow(r, t) ==
    /\ FreeSlot(r)
    /\ IF t = 0
       THEN Reply(Response("DownloadFile", 400, "Missing download token", [token |-> t]))
       ELSE IF ~CacheHit(cache, CacheKey("download", t), now)
       THEN Reply(Response("DownloadFile", 401, "Invalid or expired download token", [token |-> t]))
       ELSE IF files[cache[CacheKey("download", t)].data.file_id].deleted
       THEN Reply(Response("DownloadFile", 410, "File has been deleted", [token |-> t]))
       ELSE /\ reqs' = [reqs EXCEPT ![r] = [op |-> "DownloadFile", pc |-> "fetched", token |-> t,
                                            data |-> cache[CacheKey("download", t)].data,
                                            written |-> 0]]
            /\ UNCHANGED <<now, buckets, files, cache, nextToken, disk, dirs, resp, hist>>

DownloadFetch(r, t) ==
    /\ FreeSlot(r)
    /\ IF t = 0
       THEN Reply(Response("DownloadFile", 400, "Missing download token", [token |-> t]))
       ELSE IF ~CacheHit(cache, CacheKey("download", t), now)
       THEN Reply(Response("DownloadFile", 401, "Invalid or expired download token", [token |-> t]))
       ELSE /\ reqs' = [reqs EXCEPT ![r] = [op |-> "DownloadFile", pc |-> "fetched", token |-> t,
                                            data |-> cache[CacheKey("download", t)].data,
                                            written |-> 0]]
            /\ UNCHANGED <<now, buckets, files, cache, nextToken, disk, dirs, resp, hist>>

(* What io.Copy(w, f) streams: the file's content, nothing from a directory *)
Streamed(path) == IF path \in DOMAIN disk THEN disk[path] ELSE Truncated

(* os.Open, h.cache.Delete("download:" + token), headers, io.Copy          *)
DownloadServe(r) ==
    LET key == CacheKey("download", reqs[r].token)
        data == reqs[r].data
        path == AbsFilePath(data.file_path)
    IN  /\ reqs[r].op = "DownloadFile" /\ reqs[r].pc = "fetched"
        /\ reqs' = [reqs EXCEPT ![r] = Idle]
        /\ UNCHANGED <<now, buckets, files, nextToken, disk, dirs>>
        /\ IF ~PathExists(path)
           THEN /\ resp' = Response("DownloadFile", 404, "File not found", [token |-> reqs[r].token])
                /\ UNCHANGED <<cache, hist>>
           ELSE /\ cache' = CacheDelete(cache, key)
                /\ hist' = [hist EXCEPT ![key].ok = @ + 1]
                /\ resp' = Response("DownloadFile", 200, "",
                                    [token |-> reqs[r].token, file_id |-> data.file_id,
                                     body |-> Streamed(path)])

----------------------------------------------------------------------------
SignedURLRequest(b, k, n, s, m, ot, oi) ==
    [bucket_id |-> b, key |-> k, file_name |-> n, file_size |-> s, mimetype |-> m,
     owner_entity_type |-> ot, owner_entity_id |-> oi]

(* Requests with every field well-formed                                   *)
GoodRequests(bs) ==
    {SignedURLRequest(b, k, "f.pdf", 2, "application/pdf", "user", "u1") :
        b \in bs, k \in Keys}

(* Tokens a caller may present: 0 stands for the empty string, the others  *)
(* for 64 hex digits, of which those below nextToken have been issued      *)
Tokens == 0..MaxTokens

Forms == {"malformed", "nofile", "file"}

(* The life of tokens, one request at a time: the bucket's owner takes     *)
(* upload tokens, any client asks for download tokens, and whoever holds a *)
(* token redeems it.                                                       *)
Next ==
    \/ Tick
    \/ \E req \in GoodRequests(BucketIDs) : GenerateSignedURL("c1", req)
    \/ \E t \in Tokens : UploadFetch(1, t)
    \/ \E form \in Forms, body \in Bodies, fault \in BOOLEAN : UploadStore(1, form, body, fault)
    \/ UploadDelete(1)
    \/ \E id \in 1..MaxFiles : GenerateDownloadSignedURL("c1", id)
    \/ \E t \in Tokens : DownloadFetch(1, t)
    \/ DownloadServe(1)

Spec == Init /\ [][Next]_vars

(* Redemptions racing: every slot may hold a request, each at its own      *)
(* round trip.                                                             *)
NextRace ==
    \/ GenerateSignedURL("c1", SignedURLRequest(1, <<"a">>, "f.pdf", 2, "application/pdf", "user", "u1"))
    \/ \E r \in Slots, t \in 1..MaxTokens : UploadFetch(r, t)
    \/ \E r \in Slots, body \in Bodies : UploadStore(r, "file", body, FALSE)
    \/ \E r \in Slots : UploadDelete(r)
    \/ \E id \in 1..MaxFiles : GenerateDownloadSignedURL("c1", id)
    \/ \E r \in Slots, t \in 1..MaxTokens : DownloadFetch(r, t)
    \/ \E r \in Slots : DownloadServe(r)

SpecRace == Init /\ [][NextRace]_vars

(* Issuance: any client asks, with every field of the request present or  *)
(* missing and the bucket the caller's own, someone else's or nobody's,    *)
(* while buckets are archived.                                             *)
AllRequests ==
    {SignedURLRequest(b, k, n, s, m, ot, oi) :
        b \in {0} \cup BucketIDs \cup {2}, k \in {<<>>, <<"a">>}, n \in {"", "f.pdf"},
        s \in FileSizes, m \in {"", "application/pdf"}, ot \in {"", "user"}, oi \in {"", "u1"}}

NextIssue ==
    \/ \E c \in ClientIDs, id \in BucketIDs \cup {2} : ArchiveBucket(c, id)
    \/ \E c \in ClientIDs, req \in AllRequests : GenerateSignedURL(c, req)

SpecIssue == Init /\ [][NextIssue]_vars

----------------------------------------------------------------------------
(* Strings as the database and the listing compare them                    *)

(* The byte of a symbol: every symbol of a key stands for one ASCII        *)
(* character                                                               *)
Code(sym) ==
    CASE sym = "%" -> 37 [] sym = "*" -> 42 [] sym = "." -> 46 [] sym = "/" -> 47
      [] sym = "A" -> 65 [] sym = "_" -> 95 [] sym = "a" -> 97 [] sym = "b" -> 98
      [] sym = "c" -> 99 [] sym = "m" -> 109 [] sym = "p" -> 112 [] sym = "q" -> 113
      [] OTHER -> 120

RECURSIVE Less(_, _)
(* Byte order of two strings, as ORDER BY key ASC and sort.Strings use it  *)
Less(s, t) ==
    IF t = <<>> THEN FALSE
    ELSE IF s = <<>> THEN TRUE
    ELSE IF Code(Head(s)) # Code(Head(t)) THEN Code(Head(s)) < Code(Head(t))
    ELSE Less(Tail(s), Tail(t))

RECURSIVE TrimLeft(_)
TrimLeft(s) == IF s # <<>> /\ Head(s) = Sep THEN TrimLeft(Tail(s)) ELSE s

RECURSIVE TrimRight(_)
TrimRight(s) ==
    IF s # <<>> /\ s[Len(s)] = Sep THEN TrimRight(SubSeq(s, 1, Len(s) - 1)) ELSE s

(* strings.Trim(s, "/")                                                    *)
Trim(s) == TrimRight(TrimLeft(s))

(* strings.HasPrefix                                                       *)
HasPrefix(s, prefix) == Len(prefix) <= Len(s) /\ SubSeq(s, 1, Len(prefix)) = prefix

(* strings.TrimPrefix                                                      *)
TrimPrefix(s, prefix) ==
    IF HasPrefix(s, prefix) THEN SubSeq(s, Len(prefix) + 1, Len(s)) ELSE s

(* SQLite folds the case of ASCII letters in LIKE                          *)
Fold(sym) == IF sym = "A" THEN "a" ELSE sym

RECURSIVE Like(_, _)
(* s LIKE pat: "%" stands for any run of characters, "_" for any one       *)
(* character, every other character for itself in either case              *)
Like(s, pat) ==
    IF pat = <<>> THEN s = <<>>
    ELSE IF Head(pat) = "%"
    THEN \E i \in 0..Len(s) : Like(SubSeq(s, i + 1, Len(s)), Tail(pat))
    ELSE IF s = <<>> THEN FALSE
    ELSE IF Head(pat) = "_" THEN Like(Tail(s), Tail(pat))
    ELSE Fold(Head(s)) = Fold(Head(pat)) /\ Like(Tail(s), Tail(pat))

RECURSIVE SortStringsDescending(_)
(* The strings of S from the largest to the smallest                       *)
SortStringsDescending(S) ==
    IF S = {} THEN <<>>
    ELSE LET last == CHOOSE x \in S : \A y \in S \ {x} : Less(y, x)
         IN  <<last>> \o SortStringsDescending(S \ {last})

RECURSIVE SortStrings(_)
(* sort.Strings: the strings of set S in byte order                        *)
SortStrings(S) ==
    IF S = {} THEN <<>>
    ELSE LET first == CHOOSE x \in S : \A y \in S \ {x} : Less(x, y)
         IN  <<first>> \o SortStrings(S \ {first})

(* The orders in which a query may return rows S when nothing orders them *)
RowOrders(S) ==
    {o \in [1..Cardinality(S) -> S] : \A m, n \in 1..Cardinality(S) : o[m] = o[n] => m = n}

(* ORDER BY key ASC: the orders of rows ids in which no key comes before a *)
(* smaller one; rows with equal keys come in any order                     *)
OrderByKey(ids) ==
    {o \in RowOrders(ids) : \A m, n \in DOMAIN o : m < n => ~Less(files[o[n]].key, files[o[m]].key)}

----------------------------------------------------------------------------
(* FileHandler.ListFiles: GET /buckets/{id}/files?path=...                 *)

(* The bucket must exist, belong to the client and not be archived         *)
CheckListBucket(c, id) ==
    IF id \notin DOMAIN buckets
    THEN [status |-> 404, msg |-> "Bucket not found"]
    ELSE IF buckets[id].client_id # c
    THEN [status |-> 403, msg |-> "Access denied: bucket does not belong to your account"]
    ELSE IF buckets[id].archived
    THEN [status |-> 409, msg |-> "Cannot list files in an archived bucket"]
    ELSE [status |-> 0, msg |-> OK]

(* The query without `deleted_at IS NULL`                                  *)
ListQueryWithDeleted(id, path) ==
    {i \in DOMAIN files :
        /\ files[i].bucket_id = id
        /\ IF path = <<>> THEN files[i].key # <<>>
           ELSE Like(files[i].key, path \o <<Sep, "%">>)}

(* The query joined with what lies on disk: rows whose content is stored   *)
ListQueryStoredOnly(id, path) ==
    {i \in DOMAIN files :
        /\ files[i].bucket_id = id /\ ~files[i].deleted
        /\ AbsFilePath(ResolveFilePath(clientName(files[i].client_id),
                                       buckets[files[i].bucket_id].name,
                                       files[i].key)) \in DOMAIN disk
        /\ IF path = <<>> THEN files[i].key # <<>>
           ELSE Like(files[i].key, path \o <<Sep, "%">>)}

(* The rows the query selects                                              *)
ListQuery(id, path) ==
    {i \in DOMAIN files :
        /\ files[i].bucket_id = id /\ ~files[i].deleted
        /\ IF path = <<>> THEN files[i].key # <<>>
           ELSE Like(files[i].key, path \o <<Sep, "%">>)}

(* A loop that takes every remainder without a separator for a file       *)
IsListedFileAnyRemainder(key, prefix) ==
    /\ HasPrefix(key, prefix)
    /\ Len(Split(TrimPrefix(key, prefix))) = 1

(* What the loop over the rows makes of a key: a file of this level, a     *)
(* folder of this level, or nothing                                        *)
Remainder(key, prefix) == TrimPrefix(key, prefix)

IsListedFile(key, prefix) ==
    /\ HasPrefix(key, prefix)
    /\ Remainder(key, prefix) # <<>>
    /\ Len(Split(Remainder(key, prefix))) = 1

IsListedFolder(key, prefix) ==
    /\ HasPrefix(key, prefix)
    /\ Remainder(key, prefix) # <<>>
    /\ Len(Split(Remainder(key, prefix))) > 1

ListFiles(c, id, rawPath) ==
    LET path == Trim(rawPath)
        to == [client |-> c, bucket_id |-> id, path |-> path]
        g == CheckListBucket(c, id)
        prefix == IF path = <<>> THEN <<>> ELSE path \o <<Sep>>
    IN  IF g.status # 0 THEN Reply(Response("ListFiles", g.status, g.msg, to))
        ELSE \E rows \in OrderByKey(ListQuery(id, path)) :
               LET listed == SelectSeq(rows, LAMBDA i : IsListedFile(files[i].key, prefix))
                   foldersSet == {Split(Remainder(files[rows[n]].key, prefix))[1] :
                                     n \in {m \in DOMAIN rows :
                                               IsListedFolder(files[rows[m]].key, prefix)}}
               IN  Reply(Response("ListFiles", 200, "",
                         [client |-> c, bucket_id |-> id, path |-> path,
                          files |-> [n \in DOMAIN listed |->
                                        [id |-> listed[n], key |-> files[listed[n]].key]],
                          folders |-> SortStrings(foldersSet)]))

----------------------------------------------------------------------------
(* FileHandler.DeleteFiles: DELETE /files                                  *)

DeleteFilesRequest(ids, hasBucket, b, hasPath, path) ==
    [file_ids |-> ids, has_bucket_id |-> hasBucket, bucket_id |-> b,
     has_path |-> hasPath, path |-> path]

(* The gate with the archive check ahead of the ownership check           *)
CheckDeleteBucketArchivedFirst(c, id) ==
    IF id \notin DOMAIN buckets
    THEN [status |-> 404, msg |-> "Bucket not found"]
    ELSE IF buckets[id].archived
    THEN [status |-> 409, msg |-> "Cannot delete files in an archived bucket"]
    ELSE IF buckets[id].client_id # c
    THEN [status |-> 403, msg |-> "Access denied: bucket does not belong to your account"]
    ELSE [status |-> 0, msg |-> OK]

(* The bucket must exist, belong to the client and not be archived         *)
CheckDeleteBucket(c, id) ==
    IF id \notin DOMAIN buckets
    THEN [status |-> 404, msg |-> "Bucket not found"]
    ELSE IF buckets[id].client_id # c
    THEN [status |-> 403, msg |-> "Access denied: bucket does not belong to your account"]
    ELSE IF buckets[id].archived
    THEN [status |-> 409, msg |-> "Cannot delete files in an archived bucket"]
    ELSE [status |-> 0, msg |-> OK]

(* records[fileID] = filepath.Join("./uploads", clientName, bucketName, key) *)
DiskPath(row) ==
    Join(<<UploadsRoot, clientName(row.client_id), buckets[row.bucket_id].name, row.key>>)

(* os.Remove(path): a file is unlinked and an empty directory removed; a   *)
(* directory with entries and a path through a regular file are errors     *)
(* other than NotExist                                                     *)
RemoveOutcome(path, d, ds) ==
    IF path \in DOMAIN d THEN "removed"
    ELSE IF path \in ds
    THEN IF \E q \in DOMAIN d \cup ds : q # path /\ HasPrefix(q, path \o <<Sep>>)
         THEN "error" ELSE "removed"
    ELSE IF \E a \in Ancestors(Dir(path)) : a \in DOMAIN d THEN "error"
    ELSE "absent"

Unlink(d, path) == [q \in DOMAIN d \ {path} |-> d[q]]

RECURSIVE removeFilesMarkingAbsent(_, _, _)
(* A loop that also marks the row of a file that is not on disk            *)
removeFilesMarkingAbsent(fileIDs, records, st) ==
    IF fileIDs = <<>> THEN st
    ELSE LET id == Head(fileIDs)
             o == IF id \in DOMAIN records
                  THEN RemoveOutcome(records[id], st.disk, st.dirs) ELSE "absent"
             next == IF o = "absent"
                     THEN [st EXCEPT !.missing = Append(@, id),
                                     !.marked = @ \cup ({id} \cap DOMAIN records)]
                     ELSE IF o = "error" THEN [st EXCEPT !.failed = Append(@, id)]
                     ELSE [st EXCEPT !.disk = Unlink(@, records[id]),
                                     !.dirs = @ \ {records[id]},
                                     !.marked = @ \cup {id},
                                     !.deleted = Append(@, id)]
         IN  removeFilesMarkingAbsent(Tail(fileIDs), records, next)

RECURSIVE removeFiles(_, _, _)
(* removeFiles: one id after the other; st carries the disk, the ids whose *)
(* rows are marked deleted and the three lists                             *)
removeFiles(fileIDs, records, st) ==
    IF fileIDs = <<>> THEN st
    ELSE LET id == Head(fileIDs)
             o == IF id \in DOMAIN records
                  THEN RemoveOutcome(records[id], st.disk, st.dirs) ELSE "absent"
             next == IF o = "absent" THEN [st EXCEPT !.missing = Append(@, id)]
                     ELSE IF o = "error" THEN [st EXCEPT !.failed = Append(@, id)]
                     ELSE [st EXCEPT !.disk = Unlink(@, records[id]),
                                     !.dirs = @ \ {records[id]},
                                     !.marked = @ \cup {id},
                                     !.deleted = Append(@, id)]
         IN  removeFiles(Tail(fileIDs), records, next)

(* A query by ids that does not ask whose the rows are                     *)
DeleteByIDsQueryAnyClient(c, fileIDs) ==
    {i \in DOMAIN files :
        /\ ~files[i].deleted
        /\ \E n \in DOMAIN fileIDs : fileIDs[n] = i}

(* The rows a deletion by ids finds                                        *)
DeleteByIDsQuery(c, fileIDs) ==
    {i \in DOMAIN files :
        /\ files[i].client_id = c /\ ~files[i].deleted
        /\ \E n \in DOMAIN fileIDs : fileIDs[n] = i}

(* The rows a deletion by path finds                                       *)
DeleteByPathQuery(c, id, path) ==
    {i \in DOMAIN files :
        /\ files[i].bucket_id = id /\ files[i].client_id = c /\ ~files[i].deleted
        /\ Like(files[i].key, path \o <<Sep, "%">>)}

(* The removal applied to the tables and the disk, and the 200 response    *)
DeleteApply(c, req, fileIDs, found) ==
    LET records == [i \in found |-> DiskPath(files[i])]
        st == removeFiles(fileIDs, records,
                  [disk |-> disk, dirs |-> dirs, marked |-> {},
                   deleted |-> <<>>, missing |-> <<>>, failed |-> <<>>])
    IN  /\ files' = [i \in DOMAIN files |->
                        IF i \in st.marked THEN [files[i] EXCEPT !.deleted = TRUE] ELSE files[i]]
        /\ disk' = st.disk
        /\ dirs' = st.dirs
        /\ resp' = Response("DeleteFiles", 200, "",
                            [client |-> c, req |-> req, deleted |-> st.deleted,
                             missing |-> st.missing, failed |-> st.failed])
        /\ UNCHANGED <<now, buckets, cache, nextToken, reqs, hist>>

deleteFilesByIDs(c, req) ==
    DeleteApply(c, req, req.file_ids, DeleteByIDsQuery(c, req.file_ids))

deleteFilesByPath(c, req) ==
    LET to == [client |-> c, req |-> req]
        path == Trim(req.path)
        g == CheckDeleteBucket(c, req.bucket_id)
        found == DeleteByPathQuery(c, req.bucket_id, path)
    IN  IF g.status # 0 THEN Reply(Response("DeleteFiles", g.status, g.msg, to))
        ELSE IF found = {}
        THEN Reply(Response("DeleteFiles", 400, "No files found at the given path", to))
        ELSE \E fileIDs \in RowOrders(found) : DeleteApply(c, req, fileIDs, found)

DeleteFiles(c, req) ==
    LET to == [client |-> c, req |-> req]
        hasFileIDs == Len(req.file_ids) > 0
    IN  IF hasFileIDs /\ (req.has_path \/ req.has_bucket_id)
        THEN Reply(Response("DeleteFiles", 400, "file_ids and path cannot be used together", to))
        ELSE IF req.has_path /\ ~req.has_bucket_id
        THEN Reply(Response("DeleteFiles", 400, "bucket_id is required when path is provided", to))
        ELSE IF ~hasFileIDs /\ ~req.has_path
        THEN Reply(Response("DeleteFiles", 400,
                            "Either file_ids or (bucket_id and path) is required", to))
        ELSE IF hasFileIDs THEN deleteFilesByIDs(c, req)
        ELSE deleteFilesByPath(c, req)

----------------------------------------------------------------------------
(* The namespace: a bucket that already holds rows, some with content on   *)
(* disk and some never uploaded, is listed, deleted from, archived and     *)
(* asked for download links by its owner and by another client.            *)

TreePaths == { <<>>, <<Sep, "a", Sep>>, <<"a", Sep, "b">>, <<"_">> }

Seed(key, stored) == [key |-> key, stored |-> stored]

(* Rows in the order they were issued, each uploaded or never uploaded     *)
Seeds ==
    { <<>>,
      << Seed(<<"a">>, TRUE) >>,
      << Seed(<<"a">>, FALSE), Seed(<<"a", Sep, "b">>, TRUE) >>,
      << Seed(<<"a">>, TRUE), Seed(<<"a", Sep, "b">>, FALSE) >>,
      << Seed(<<"a", Sep>>, FALSE), Seed(<<"a", Sep, "b">>, TRUE) >>,
      << Seed(<<"a", Sep, "b", Sep, "c">>, TRUE), Seed(<<"a", Sep, "b">>, FALSE) >>,
      << Seed(<<"a", Sep, "b">>, TRUE), Seed(<<"a", Sep, "b", Sep, "c">>, FALSE) >>,
      << Seed(<<"a", Sep, "b">>, TRUE), Seed(<<"a", Sep, "b">>, TRUE) >>,
      << Seed(<<"b", Sep, "c">>, TRUE), Seed(<<"a", Sep, "b">>, TRUE) >> }

SeedPath(e) == AbsFilePath(ResolveFilePath(clientName("c1"), <<"m">>, e.key))

InitTree ==
    \E seed \in Seeds :
        /\ now = 0
        /\ buckets = [b \in BucketIDs |-> [client_id |-> "c1", name |-> <<"m">>, archived |-> FALSE]]
        /\ files = [i \in DOMAIN seed |->
                       FileRow(i, "c1", SignedURLRequest(1, seed[i].key, "f.pdf", 2,
                                                         "application/pdf", "user", "u1"))]
        /\ cache = <<>>
        /\ nextToken = 1
        /\ disk = [p \in {SeedPath(seed[i]) : i \in {j \in DOMAIN seed : seed[j].stored}} |->
                       [size |-> 2, data |-> "y"]]
        /\ dirs = UNION {Ancestors(Dir(SeedPath(seed[i]))) : i \in {j \in DOMAIN seed : seed[j].stored}}
        /\ reqs = [r \in Slots |-> Idle]
        /\ resp = Response("none", 0, "", NoVal)
        /\ hist = <<>>

DeleteFilesRequests ==
    {DeleteFilesRequest(ids, FALSE, 0, FALSE, <<>>) : ids \in {<<>>, <<2, 1>>, <<1, 1>>, <<3>>}}
    \cup {DeleteFilesRequest(<<>>, TRUE, b, TRUE, path) : b \in BucketIDs \cup {2}, path \in TreePaths}
    \cup {DeleteFilesRequest(<<1>>, TRUE, 1, TRUE, <<"a">>),
          DeleteFilesRequest(<<>>, FALSE, 0, TRUE, <<"a">>)}

NextTree ==
    \/ \E c \in ClientIDs, id \in BucketIDs \cup {2} : ArchiveBucket(c, id)
    \/ \E c \in ClientIDs, b \in BucketIDs \cup {2} :
           GenerateSignedURL(c, SignedURLRequest(b, <<"a">>, "f.pdf", 2, "application/pdf", "user", "u1"))
    \/ \E c \in ClientIDs, id \in BucketIDs \cup {2}, path \in TreePaths : ListFiles(c, id, path)
    \/ \E c \in ClientIDs, req \in DeleteFilesRequests : DeleteFiles(c, req)
    \/ \E c \in ClientIDs, id \in DOMAIN files : GenerateDownloadSignedURL(c, id)

SpecTree == InitTree /\ [][NextTree]_vars

----------------------------------------------------------------------------
(* matchPattern and matchesPublicPath (bucket_handler.go) on strings as    *)
(* the bytes Go indexes them by                                            *)

Bytes(s) == [n \in DOMAIN s |-> Code(s[n])]

Star == Code("*")

Slash == Code("/")

Accelerators == { <<Star>>, <<Star, Slash, Star>>, <<Star, Star>> }

(* The bytes the loop escapes with a backslash                             *)
Escaped == {46, 43, 63, 40, 41, 91, 93, 123, 125, 94, 36, 124, 92}

(* The regular expression the loop writes, one element per pattern byte:   *)
(* "[^/]*" for a star, else one literal. The literal is string(c) for the  *)
(* byte c, which is the character with code point c, so a byte of 128 or   *)
(* more becomes the two-byte character U+0080..U+00FF                      *)
RegexOf(pattern) ==
    [n \in DOMAIN pattern |->
        LET c == pattern[n]
        IN  IF c = Star THEN [star |-> TRUE, rune |-> 0]
            ELSE IF c \in Escaped THEN [star |-> FALSE, rune |-> c]
            ELSE [star |-> FALSE, rune |-> c]]

RECURSIVE DecodeRunes(_)
(* The characters the regexp engine reads from a string: UTF-8 of one or   *)
(* two bytes, and U+FFFD for a byte that starts no valid sequence          *)
DecodeRunes(b) ==
    IF b = <<>> THEN <<>>
    ELSE IF b[1] < 128 THEN <<b[1]>> \o DecodeRunes(Tail(b))
    ELSE IF b[1] \in 194..223 /\ Len(b) >= 2 /\ b[2] \in 128..191
    THEN <<(b[1] - 192) * 64 + (b[2] - 128)>> \o DecodeRunes(SubSeq(b, 3, Len(b)))
    ELSE <<65533>> \o DecodeRunes(Tail(b))

RECURSIVE RegexMatch(_, _)
(* regexp.MatchString("^" + rx + "$", text) on the characters of text      *)
RegexMatch(rx, text) ==
    IF rx = <<>> THEN text = <<>>
    ELSE IF rx[1].star
    THEN \/ RegexMatch(Tail(rx), text)
         \/ text # <<>> /\ text[1] # Slash /\ RegexMatch(rx, Tail(text))
    ELSE text # <<>> /\ text[1] = rx[1].rune /\ RegexMatch(Tail(rx), Tail(text))

(* matchPattern with no pattern short-circuited                            *)
matchPatternGeneral(key, pattern) ==
    RegexMatch(RegexOf(pattern), DecodeRunes(key))

matchPattern(key, pattern) ==
    IF pattern \in Accelerators THEN TRUE
    ELSE RegexMatch(RegexOf(pattern), DecodeRunes(key))

(* A matcher for which a bucket without patterns is public as a whole      *)
matchesPublicPathOrNone(key, patterns) ==
    patterns = <<>> \/ \E n \in DOMAIN patterns : matchPattern(key, patterns[n])

matchesPublicPath(key, patterns) ==
    \E n \in DOMAIN patterns : matchPattern(key, patterns[n])

----------------------------------------------------------------------------
(* isOriginAllowed and matchWildcard (public_file_handler.go)              *)

RECURSIVE SplitStar(_)
(* strings.Split(pattern, "*")                                             *)
SplitStar(s) ==
    IF s = <<>> THEN << <<>> >>
    ELSE LET rest == SplitStar(Tail(s)) IN
         IF Head(s) = Star THEN << <<>> >> \o rest
         ELSE << <<Head(s)>> \o Head(rest) >> \o Tail(rest)

HasSuffix(s, suffix) ==
    Len(s) >= Len(suffix) /\ SubSeq(s, Len(s) - Len(suffix) + 1, Len(s)) = suffix

(* strings.Index(s, sub): where sub first starts in s, counted from 0, or  *)
(* -1                                                                      *)
Index(s, sub) ==
    LET at == {k \in 0..(Len(s) - Len(sub)) : SubSeq(s, k + 1, k + Len(sub)) = sub}
    IN  IF at = {} THEN -1 ELSE CHOOSE k \in at : \A j \in at : k <= j

RECURSIVE MiddleParts(_, _)
(* The loop over parts[1 .. len-2]: each is looked for after the previous  *)
(* one                                                                      *)
MiddleParts(parts, remaining) ==
    IF parts = <<>> THEN TRUE
    ELSE LET idx == Index(remaining, parts[1])
         IN  IF idx = -1 THEN FALSE
             ELSE MiddleParts(Tail(parts),
                              SubSeq(remaining, idx + Len(parts[1]) + 1, Len(remaining)))

matchWildcard(origin, pattern) ==
    LET parts == SplitStar(pattern)
    IN  IF Len(parts) = 1 THEN origin = pattern
        ELSE IF ~HasPrefix(origin, parts[1]) THEN FALSE
        ELSE IF ~HasSuffix(origin, parts[Len(parts)]) THEN FALSE
        ELSE MiddleParts(SubSeq(parts, 2, Len(parts) - 1),
                         SubSeq(origin, Len(parts[1]) + 1, Len(origin)))

isOriginAllowed(origin, allowedOrigins) ==
    \E n \in DOMAIN allowedOrigins :
        LET allowed == allowedOrigins[n]
        IN  \/ allowed = <<Star>>
            \/ allowed = origin
            \/ (\E k \in DOMAIN allowed : allowed[k] = Star) /\ matchWildcard(origin, allowed)

----------------------------------------------------------------------------
(* The matchers asked about every short candidate and pattern, in bytes:   *)
(* "a", "/", "*" and the two bytes of a character outside ASCII            *)

MaxKeyLen == 3
MaxPatLen == 3

KeyBytes == {Slash, Code("a"), 195, 169}

PatBytes == {Star, Slash, Code("a"), 195, 169}

MatchKeys == UNION {[1..n -> KeyBytes] : n \in 0..MaxKeyLen}

MatchPatterns == UNION {[1..n -> PatBytes] : n \in 0..MaxPatLen}

(* A candidate and a pattern are given, nothing else exists                *)
InitMatch ==
    /\ now = 0
    /\ buckets = <<>>
    /\ files = <<>>
    /\ cache = <<>>
    /\ nextToken = 1
    /\ disk = <<>>
    /\ dirs = {}
    /\ reqs = [r \in Slots |-> Idle]
    /\ hist = <<>>
    /\ \E key \in MatchKeys, pattern \in MatchPatterns :
           resp = Response("given", 0, "", [key |-> key, pattern |-> pattern])

AskMatchPattern ==
    /\ resp.op = "given"
    /\ Reply(Response("matchPattern", 0, "",
                      [key |-> resp.val.key, pattern |-> resp.val.pattern,
                       matched |-> matchPattern(resp.val.key, resp.val.pattern)]))

AskOriginAllowed ==
    /\ resp.op = "given"
    /\ Reply(Response("isOriginAllowed", 0, "",
                      [origin |-> resp.val.key, allowed |-> resp.val.pattern,
                       matched |-> isOriginAllowed(resp.val.key, <<resp.val.pattern>>)]))

NextMatch ==
    \/ AskMatchPattern
    \/ AskOriginAllowed

SpecMatch == InitMatch /\ [][NextMatch]_vars

----------------------------------------------------------------------------
(* PublicFileHandler.ServePublicFile: GET /files/{bucket_name}/{file_path} *)

CORSRule(origins, methods, headers, expose) ==
    [allowed_origins |-> origins, allowed_methods |-> methods,
     allowed_headers |-> headers, expose_headers |-> expose]

BytesOfAll(strs) == [n \in DOMAIN strs |-> Bytes(strs[n])]

NoHeaders == <<>>

(* The headers one rule sets for an origin it allows: the two fixed ones   *)
(* and each list header whose list is not empty                            *)
RuleHeaders(origin, rule) ==
    LET names == {"Access-Control-Allow-Origin", "Vary"}
                 \cup (IF Len(rule.allowed_methods) > 0 THEN {"Access-Control-Allow-Methods"} ELSE {})
                 \cup (IF Len(rule.allowed_headers) > 0 THEN {"Access-Control-Allow-Headers"} ELSE {})
                 \cup (IF Len(rule.expose_headers) > 0 THEN {"Access-Control-Expose-Headers"} ELSE {})
    IN  [h \in names |->
            CASE h = "Access-Control-Allow-Origin" -> origin
              [] h = "Vary" -> <<"Origin">>
              [] h = "Access-Control-Allow-Methods" -> rule.allowed_methods
              [] h = "Access-Control-Allow-Headers" -> rule.allowed_headers
              [] OTHER -> rule.expose_headers]

(* The rules of a policy that allow the origin                             *)
AllowingRules(origin, rules) ==
    {n \in DOMAIN rules : isOriginAllowed(Bytes(origin), BytesOfAll(rules[n].allowed_origins))}

(* The headers of the last rule that allows the origin                     *)
applyCORSHeadersLastRule(origin, rules) ==
    IF origin = <<>> \/ AllowingRules(origin, rules) = {} THEN NoHeaders
    ELSE RuleHeaders(origin, rules[CHOOSE n \in AllowingRules(origin, rules) :
                                       \A k \in AllowingRules(origin, rules) : k <= n])

(* applyCORSHeaders: nothing without an Origin; else the headers of the    *)
(* first rule that allows it, and the loop ends there                      *)
applyCORSHeaders(origin, rules) ==
    IF origin = <<>> \/ AllowingRules(origin, rules) = {} THEN NoHeaders
    ELSE RuleHeaders(origin, rules[CHOOSE n \in AllowingRules(origin, rules) :
                                       \A k \in AllowingRules(origin, rules) : n <= k])

(* SELECT ... FROM buckets WHERE name = ?: names are unique per client     *)
(* only, so several rows may answer to one name                            *)
BucketsNamed(name) == {b \in DOMAIN buckets : buckets[b].name = name}

(* os.Stat(path)                                                           *)
Stat(path) ==
    IF path \in DOMAIN disk THEN "file"
    ELSE IF path \in dirs THEN "dir"
    ELSE IF \E a \in Ancestors(Dir(path)) : a \in DOMAIN disk THEN "error"
    ELSE "notexist"

NoBody == [size |-> 0, data |-> ""]

PublicAnswer(bucketName, filePath, origin, b, status, msg, headers, body) ==
    Reply(Response("ServePublicFile", status, msg,
                   [bucket_name |-> bucketName, file_path |-> filePath, origin |-> origin,
                    bucket |-> b, headers |-> headers, body |-> body]))

ServePublicFile(bucketName, filePath, origin) ==
    IF BucketsNamed(bucketName) = {}
    THEN PublicAnswer(bucketName, filePath, origin, 0, 404, "Bucket not found", NoHeaders, NoBody)
    ELSE \E b \in BucketsNamed(bucketName) :
        LET bucket == buckets[b]
            fullPath == Join(<<UploadsRoot, clientName(bucket.client_id), bucketName, filePath>>)
            st == Stat(fullPath)
        IN  IF bucket.archived
            THEN PublicAnswer(bucketName, filePath, origin, b, 404, "Bucket not found", NoHeaders, NoBody)
            ELSE IF ~matchesPublicPath(Bytes(filePath), BytesOfAll(bucket.public_paths))
            THEN PublicAnswer(bucketName, filePath, origin, b, 403,
                              "File is not publicly accessible", NoHeaders, NoBody)
            ELSE IF st = "notexist"
            THEN PublicAnswer(bucketName, filePath, origin, b, 404, "File not found", NoHeaders, NoBody)
            ELSE IF st = "error"
            THEN PublicAnswer(bucketName, filePath, origin, b, 500, "Failed to access file", NoHeaders, NoBody)
            ELSE IF st = "dir"
            THEN PublicAnswer(bucketName, filePath, origin, b, 404, "File not found", NoHeaders, NoBody)
            ELSE PublicAnswer(bucketName, filePath, origin, b, 200, "",
                              applyCORSHeaders(origin, bucket.cors_policy), disk[fullPath])

----------------------------------------------------------------------------
(* Public reads: two clients own a bucket of the same name, one of them    *)
(* with some public paths, a CORS policy and some content; anyone reads,   *)
(* with or without an Origin, while the owners archive.                    *)

PublicPathLists ==
    { <<>>,
      << <<"a">> >>,
      << <<"a", Sep, "*">> >>,
      << <<"*">> >>,
      << <<"b">>, <<"a", Sep, "*">> >> }

CORSPolicies ==
    { <<>>,
      << CORSRule(<< <<"a">> >>, << "GET" >>, <<>>, <<>>),
         CORSRule(<< <<"*">> >>, <<>>, << "X-A" >>, <<>>) >>,
      << CORSRule(<< <<"b">>, <<"a", "*">> >>, << "GET", "HEAD" >>, <<>>, << "ETag" >>) >>,
      << CORSRule(<< <<"a", "*">> >>, <<>>, <<>>, <<>>),
         CORSRule(<< <<"a">> >>, << "GET" >>, <<>>, <<>>) >> }

(* The keys client c1 has uploaded                                         *)
PublicStored == { {}, { <<"a">> }, { <<"a", Sep, "b">> } }

PublicFilePath(c, key) == AbsFilePath(ResolveFilePath(clientName(c), <<"m">>, key))

InitPublic ==
    \E paths \in PublicPathLists, policy \in CORSPolicies, stored \in PublicStored :
        /\ now = 0
        /\ buckets = << [client_id |-> "c1", name |-> <<"m">>, archived |-> FALSE,
                         public_paths |-> paths, cors_policy |-> policy],
                        [client_id |-> "c2", name |-> <<"m">>, archived |-> FALSE,
                         public_paths |-> << <<"a">> >>, cors_policy |-> <<>>] >>
        /\ files = <<>>
        /\ cache = <<>>
        /\ nextToken = 1
        /\ disk = [p \in {PublicFilePath("c1", k) : k \in stored} \cup {PublicFilePath("c2", <<"a">>)} |->
                       IF p = PublicFilePath("c2", <<"a">>)
                       THEN [size |-> 3, data |-> "z"] ELSE [size |-> 2, data |-> "y"]]
        /\ dirs = UNION {Ancestors(Dir(PublicFilePath("c1", k))) : k \in stored}
                  \cup Ancestors(Dir(PublicFilePath("c2", <<"a">>)))
        /\ reqs = [r \in Slots |-> Idle]
        /\ resp = Response("none", 0, "", NoVal)
        /\ hist = <<>>

PublicNames == { <<"m">>, <<"x">> }

PublicPaths == { <<"a">>, <<"a", Sep, "b">>, <<"b">> }

Origins == { <<>>, <<"a">>, <<"b">> }

NextPublic ==
    \/ \E c \in ClientIDs, id \in {1, 2} : ArchiveBucket(c, id)
    \/ \E name \in PublicNames, path \in PublicPaths, origin \in Origins :
           ServePublicFile(name, path, origin)

SpecPublic == InitPublic /\ [][NextPublic]_vars

----------------------------------------------------------------------------
(* BucketHandler.GetBucket and BucketHandler.UpdateBucket                  *)

(* A json.RawMessage field of models.UpdateBucketRequest as decoded from   *)
(* the body: absent (length 0), not an array of the expected elements, or  *)
(* an array, held as its elements                                          *)
Raw(kind, val) == [kind |-> kind, val |-> val]

Absent == Raw("absent", <<>>)

Malformed == Raw("malformed", <<>>)

Array(val) == Raw("array", val)

(* validateCORSPolicy: "[]" for an absent field, an error for a field that *)
(* does not unmarshal, the re-marshalled rules otherwise                   *)
validateCORSPolicy(raw) ==
    IF raw.kind = "absent" THEN [err |-> FALSE, clean |-> <<>>]
    ELSE IF raw.kind = "malformed" THEN [err |-> TRUE, clean |-> <<>>]
    ELSE [err |-> FALSE, clean |-> raw.val]

(* validatePublicPaths: the same for the list of patterns                  *)
validatePublicPaths(raw) ==
    IF raw.kind = "absent" THEN [err |-> FALSE, clean |-> <<>>]
    ELSE IF raw.kind = "malformed" THEN [err |-> TRUE, clean |-> <<>>]
    ELSE [err |-> FALSE, clean |-> raw.val]

(* SELECT ... FROM buckets WHERE id = ? AND client_id = ?                  *)
OwnBucket(c, id) == id \in DOMAIN buckets /\ buckets[id].client_id = c

(* The row filters of the UPDATE with the archived flag or the client left *)
(* out                                                                     *)
UpdateMatchesArchived(c, id) == OwnBucket(c, id)

UpdateMatchesAnyClient(c, id) == id \in DOMAIN buckets /\ ~buckets[id].archived

(* UPDATE buckets ... WHERE id = ? AND client_id = ? AND archived = 0      *)
UpdateMatches(c, id) == OwnBucket(c, id) /\ ~buckets[id].archived

(* GET /buckets/{id}                                                       *)
GetBucket(c, id) ==
    IF ~OwnBucket(c, id)
    THEN Reply(Response("GetBucket", 404, "Bucket not found", [client |-> c, id |-> id]))
    ELSE Reply(Response("GetBucket", 200, "", [client |-> c, id |-> id, bucket |-> buckets[id]]))

(* PUT /buckets/{id}                                                       *)
UpdateBucket(c, id, req) ==
    LET corsPolicy == validateCORSPolicy(req.cors_policy)
        publicPaths == validatePublicPaths(req.public_paths)
        v == [client |-> c, id |-> id, req |-> req]
    IN  IF corsPolicy.err
        THEN Reply(Response("UpdateBucket", 400,
                            "cors_policy must be a valid JSON array of CORS rules", v))
        ELSE IF publicPaths.err
        THEN Reply(Response("UpdateBucket", 400,
                            "public_paths must be a valid JSON array of strings", v))
        ELSE IF UpdateMatches(c, id)
        THEN /\ buckets' = [buckets EXCEPT ![id].cors_policy = corsPolicy.clean,
                                           ![id].public_paths = publicPaths.clean]
             /\ resp' = Response("UpdateBucket", 200, "",
                                 [client |-> c, id |-> id, req |-> req, bucket |-> buckets'[id]])
             /\ UNCHANGED <<now, files, cache, nextToken, disk, dirs, reqs, hist>>
        ELSE IF ~OwnBucket(c, id)
        THEN Reply(Response("UpdateBucket", 404, "Bucket not found", v))
        ELSE Reply(Response("UpdateBucket", 409, "Cannot update an archived bucket", v))

----------------------------------------------------------------------------
(* Bucket management: each of two clients owns one bucket with a CORS      *)
(* rule and a public path; both read, update and archive by id, their own  *)
(* bucket, the other's and one that does not exist.                        *)

RuleA == CORSRule(<< <<"a">> >>, << "GET" >>, <<>>, <<>>)

RuleB == CORSRule(<< <<"*">> >>, <<>>, <<>>, <<>>)

InitBucket ==
    /\ now = 0
    /\ buckets = << [client_id |-> "c1", name |-> <<"m">>, archived |-> FALSE,
                     public_paths |-> << <<"a">> >>, cors_policy |-> << RuleA >>],
                    [client_id |-> "c2", name |-> <<"m">>, archived |-> FALSE,
                     public_paths |-> << <<"a">> >>, cors_policy |-> << RuleA >>] >>
    /\ files = <<>>
    /\ cache = <<>>
    /\ nextToken = 1
    /\ disk = <<>>
    /\ dirs = {}
    /\ reqs = [r \in Slots |-> Idle]
    /\ resp = Response("none", 0, "", NoVal)
    /\ hist = <<>>

BucketRequestIDs == {1, 2, 3}

RawPolicies == { Absent, Malformed, Array(<<>>), Array(<< RuleB >>) }

RawPaths == { Absent, Malformed, Array(<<>>), Array(<< <<"b">> >>) }

UpdateBucketRequests == [cors_policy : RawPolicies, public_paths : RawPaths]

NextBucket ==
    \/ \E c \in ClientIDs, id \in BucketRequestIDs : GetBucket(c, id)
    \/ \E c \in ClientIDs, id \in BucketRequestIDs, req \in UpdateBucketRequests :
           UpdateBucket(c, id, req)
    \/ \E c \in ClientIDs, id \in BucketRequestIDs : ArchiveBucket(c, id)

SpecBucket == InitBucket /\ [][NextBucket]_vars

----------------------------------------------------------------------------
(* Objects that share a key: the owner of a bucket, which may already hold *)
(* a stored object, issues upload tokens for that object's key, uploads,   *)
(* asks for download links, downloads, deletes and archives.               *)

MaxRows == 2

LifeKey == <<"a">>

LifeRequest == SignedURLRequest(1, LifeKey, "f.pdf", 2, "application/pdf", "user", "u1")

(* What an upload carries: two contents within the ceiling                 *)
LifeBodies == { [size |-> 1, data |-> "x"], [size |-> 2, data |-> "y"] }

LifePath == AbsFilePath(ResolveFilePath(clientName("c1"), <<"m">>, LifeKey))

InitLife ==
    \E seeded \in BOOLEAN :
        /\ now = 0
        /\ buckets = [b \in BucketIDs |-> [client_id |-> "c1", name |-> <<"m">>, archived |-> FALSE]]
        /\ files = IF seeded THEN << FileRow(1, "c1", LifeRequest) >> ELSE <<>>
        /\ cache = <<>>
        /\ nextToken = 1
        /\ disk = IF seeded THEN [p \in {LifePath} |-> [size |-> 2, data |-> "y"]] ELSE <<>>
        /\ dirs = IF seeded THEN Ancestors(Dir(LifePath)) ELSE {}
        /\ reqs = [r \in Slots |-> Idle]
        /\ resp = Response("none", 0, "", NoVal)
        /\ hist = <<>>

NextLife ==
    \/ ArchiveBucket("c1", 1)
    \/ GenerateSignedURLWithin("c1", LifeRequest, MaxRows)
    \/ \E t \in 1..MaxTokens : UploadFetch(1, t)
    \/ \E body \in LifeBodies : UploadStore(1, "file", body, FALSE)
    \/ UploadDelete(1)
    \/ \E id \in DOMAIN files : GenerateDownloadSignedURL("c1", id)
    \/ \E t \in 1..MaxTokens : DownloadFetch(1, t)
    \/ DownloadServe(1)
    \/ \E id \in DOMAIN files :
           DeleteFiles("c1", DeleteFilesRequest(<<id>>, FALSE, 0, FALSE, <<>>))

SpecLife == InitLife /\ [][NextLife]_vars

----------------------------------------------------------------------------
(* Two clients registered under one display name.  clients.name carries    *)
(* no UNIQUE constraint and CreateClient refuses only the empty name;      *)
(* buckets are unique per (name, client_id), so each client may own a      *)
(* bucket of the same name.                                                *)

Namesakes == {"c2", "c3"}

(* The bucket of each of the two clients                                   *)
NamesakeBucket(c) == IF c = "c2" THEN 1 ELSE 2

NamesakeRequest(c) ==
    SignedURLRequest(NamesakeBucket(c), LifeKey, "f.pdf", 2, "application/pdf", "user", "u1")

NamesakePath == AbsFilePath(ResolveFilePath(clientName("c2"), <<"m">>, LifeKey))

InitNames ==
    \E seeded \in BOOLEAN :
        /\ now = 0
        /\ buckets = [b \in {1, 2} |->
                         [client_id |-> IF b = 1 THEN "c2" ELSE "c3",
                          name |-> <<"m">>, archived |-> FALSE]]
        /\ files = IF seeded THEN << FileRow(1, "c2", NamesakeRequest("c2")) >> ELSE <<>>
        /\ cache = <<>>
        /\ nextToken = 1
        /\ disk = IF seeded THEN [p \in {NamesakePath} |-> [size |-> 2, data |-> "y"]] ELSE <<>>
        /\ dirs = IF seeded THEN Ancestors(Dir(NamesakePath)) ELSE {}
        /\ reqs = [r \in Slots |-> Idle]
        /\ resp = Response("none", 0, "", NoVal)
        /\ hist = <<>>

NextNames ==
    \/ \E c \in Namesakes : GenerateSignedURLWithin(c, NamesakeRequest(c), MaxRows)
    \/ \E t \in 1..MaxTokens : UploadFetch(1, t)
    \/ \E body \in LifeBodies : UploadStore(1, "file", body, FALSE)
    \/ UploadDelete(1)
    \/ \E c \in Namesakes, id \in DOMAIN files : GenerateDownloadSignedURL(c, id)
    \/ \E t \in 1..MaxTokens : DownloadFetch(1, t)
    \/ DownloadServe(1)
    \/ \E c \in Namesakes, id \in DOMAIN files :
           DeleteFiles(c, DeleteFilesRequest(<<id>>, FALSE, 0, FALSE, <<>>))

SpecNames == InitNames /\ [][NextNames]_vars

----------------------------------------------------------------------------
(* One client issuing upload tokens and redeeming them, or not, while the  *)
(* clock runs; listing and deleting in between.                            *)

NextAbandon ==
    \/ Tick
    \/ GenerateSignedURL("c1", LifeRequest)
    \/ \E t \in 1..MaxTokens : UploadFetch(1, t)
    \/ \E body \in Bodies : UploadStore(1, "file", body, FALSE)
    \/ UploadDelete(1)
    \/ ListFiles("c1", 1, <<>>)
    \/ \E id \in DOMAIN files :
           DeleteFiles("c1", DeleteFilesRequest(<<id>>, FALSE, 0, FALSE, <<>>))

SpecAbandon == Init /\ [][NextAbandon]_vars

----------------------------------------------------------------------------
(* Properties of the token lifecycle                                       *)

Redemptions == {"UploadFile", "DownloadFile"}

Namespace(op) == IF op = "UploadFile" THEN "upload" ELSE "download"

InvalidToken(op) ==
    IF op = "UploadFile" THEN "Invalid or expired upload token"
    ELSE "Invalid or expired download token"

(* The cache key a request or a redemption response is about               *)
KeyOf(q) == CacheKey(Namespace(q.op), q.token)

InFlight(k) == {r \in Slots : reqs[r].pc # "idle" /\ KeyOf(reqs[r]) = k}

AnswersTo(k) ==
    resp.op \in Redemptions /\ CacheKey(Namespace(resp.op), resp.val.token) = k

(* C1: with requests handled one at a time, once a redemption of a token   *)
(* has succeeded the token is no longer in the cache, no request gets past *)
(* the fetch with it, it never succeeds a second time, and the only        *)
(* answers ever given for it are that success and 401 "Invalid or expired  *)
(* token".                                                                 *)
C1_SingleUse ==
    \A k \in DOMAIN hist : hist[k].ok > 0 =>
        /\ hist[k].ok = 1
        /\ ~CacheHit(cache, k, now)
        /\ InFlight(k) = {}
        /\ AnswersTo(k) =>
              \/ resp.status = 200
              \/ resp.status = 401 /\ resp.msg = InvalidToken(resp.op)

(* A token that has been redeemed is presented again and refused           *)
C1_Witness ==
    \E k \in DOMAIN hist :
        hist[k].ok > 0 /\ AnswersTo(k) /\ resp.status = 401

(* C2: redemption is not exclusive.  The fetch leaves the token in the     *)
(* cache, where other requests find it until one of them reaches the       *)
(* delete; and a request that is past its fetch completes with 200 whether *)
(* or not the token is still there.                                        *)
C2_NotExclusive ==
    [][\A r \in Slots :
        /\ (reqs[r].pc = "idle" /\ reqs'[r].pc = "fetched") =>
              /\ cache' = cache
              /\ CacheHit(cache', KeyOf(reqs'[r]), now')
        /\ (reqs[r].pc = "stored" /\ reqs'[r].pc = "idle") =>
              /\ resp'.op = "UploadFile" /\ resp'.status = 200
              /\ resp'.val.token = reqs[r].token
        /\ (reqs[r].op = "DownloadFile" /\ reqs[r].pc = "fetched" /\ reqs'[r].pc = "idle"
              /\ PathExists(AbsFilePath(reqs[r].data.file_path))) =>
              /\ resp'.op = "DownloadFile" /\ resp'.status = 200
              /\ resp'.val.token = reqs[r].token
      ]_vars

(* One upload token and one download token have each succeeded twice       *)
C2_Witness ==
    /\ \E k \in DOMAIN hist : k[1] = "upload" /\ hist[k].ok >= 2
    /\ \E k \in DOMAIN hist : k[1] = "download" /\ hist[k].ok >= 2

(* client.name "/" bucket.name "/" key, as written                         *)
LiteralPath(row) ==
    clientName(row.client_id) \o <<Sep>> \o buckets[row.bucket_id].name \o <<Sep>> \o row.key

(* A key without empty, "." or ".." segments                               *)
PlainKey(key) ==
    \A i \in 1..Len(Split(key)) : Split(key)[i] \notin {<<>>, <<Dot>>, DotDot}

StoredAt(row) == <<"uploads", Sep>> \o Clean(LiteralPath(row))

(* C3: the path in every token payload is client.name/bucket.name/key as   *)
(* computed at issuance.                                                   *)
C3_LiteralPath ==
    \A k \in DOMAIN cache :
        cache[k].data.file_path = LiteralPath(files[cache[k].data.file_id])

(* What the handlers do keep: the path in every token payload is          *)
(* client.name/bucket.name/key lexically cleaned (empty and "." segments   *)
(* dropped, ".." taking away the segment before it), which is the          *)
(* concatenation itself when the key has no such segment; a request in     *)
(* flight carries that path, every file on disk is at uploads/<path> of    *)
(* some issued payload, and a successful upload reports that location.     *)
C3_CleanedPath ==
    /\ \A k \in DOMAIN cache :
          LET d == cache[k].data
              row == files[d.file_id]
          IN  /\ d.file_path = Clean(LiteralPath(row))
              /\ PlainKey(row.key) => d.file_path = LiteralPath(row)
    /\ \A r \in Slots : reqs[r].pc # "idle" =>
          reqs[r].data.file_path = Clean(LiteralPath(files[reqs[r].data.file_id]))
    /\ DOMAIN disk \subseteq {StoredAt(files[i]) : i \in DOMAIN files}
    /\ (resp.op = "UploadFile" /\ resp.status = 200) =>
          resp.val.saved_path = StoredAt(files[resp.val.file_id])

(* An upload under a key with a ".." segment has been stored               *)
C3_CleanedStored ==
    /\ resp.op = "UploadFile" /\ resp.status = 200
    /\ ~PlainKey(files[resp.val.file_id].key)
    /\ resp.val.saved_path \in DOMAIN disk

(* C4: an entry's expiry is set once, to the time of issuance plus 15      *)
(* minutes, and no step changes it afterwards; no request gets past the    *)
(* fetch with a token 15 minutes or more after its issuance.               *)
C4_FixedTTL ==
    [][/\ \A k \in DOMAIN cache' :
             IF k \in DOMAIN cache THEN cache'[k].expires = cache[k].expires
             ELSE cache'[k].expires = now + 15
       /\ \A r \in Slots : (reqs[r].pc = "idle" /\ reqs'[r].pc = "fetched") =>
             now < hist[KeyOf(reqs'[r])].at + 15
      ]_vars

(* A token that was never redeemed is presented after its 15 minutes and   *)
(* refused with 401                                                        *)
C4_Witness ==
    \E k \in DOMAIN hist :
        /\ hist[k].ok = 0 /\ now >= hist[k].at + 15
        /\ AnswersTo(k) /\ resp.status = 401 /\ resp.msg = InvalidToken(resp.op)

(* The fields of an upload request in the order bucket id, key, name,      *)
(* size, mimetype, owner type, owner id, and what makes each invalid       *)
FieldOrder ==
    <<"bucket_id", "key", "file_name", "file_size", "mimetype",
      "owner_entity_type", "owner_entity_id">>

FieldInvalid(req, f) ==
    CASE f = "bucket_id" -> req.bucket_id <= 0
      [] f = "key" -> req.key = <<>>
      [] f = "file_size" -> req.file_size <= 0
      [] OTHER -> req[f] = ""

InvalidFields(req) == {i \in DOMAIN FieldOrder : FieldInvalid(req, FieldOrder[i])}

(* The first invalid field of the request, 0 when there is none            *)
FirstInvalid(req) ==
    IF InvalidFields(req) = {} THEN 0
    ELSE CHOOSE i \in InvalidFields(req) : \A j \in InvalidFields(req) : i <= j

(* The message that names the field                                        *)
FieldMessage(f) ==
    CASE f = "bucket_id" -> "bucket_id is required and must be a positive integer"
      [] f = "file_size" -> "file_size must be greater than 0"
      [] f = "key" -> "key is required"
      [] f = "file_name" -> "file_name is required"
      [] f = "mimetype" -> "mimetype is required"
      [] f = "owner_entity_type" -> "owner_entity_type is required"
      [] f = "owner_entity_id" -> "owner_entity_id is required"

(* The step is an answer of GenerateSignedURL                              *)
SignedURLAnswered == resp' # resp /\ resp'.op = "GenerateSignedURL"

(* C5: a well-formed upload-token request for a bucket of the caller that  *)
(* is archived is answered with status 409, and the step inserts no file   *)
(* row, writes no cache entry and draws no token.                          *)
C5_ArchivedRefused ==
    [][SignedURLAnswered =>
        LET c == resp'.val.client
            req == resp'.val.req
        IN  (/\ FirstInvalid(req) = 0
             /\ req.bucket_id \in DOMAIN buckets
             /\ buckets[req.bucket_id].client_id = c
             /\ buckets[req.bucket_id].archived) =>
                /\ resp'.status = 409
                /\ resp'.msg = "Cannot upload to an archived bucket"
                /\ UNCHANGED <<files, cache, hist, nextToken, buckets>>
      ]_vars

(* The owner of an archived bucket has asked for an upload token and got   *)
(* 409                                                                     *)
C5_Witness ==
    /\ resp.op = "GenerateSignedURL" /\ resp.status = 409
    /\ buckets[resp.val.req.bucket_id].archived
    /\ buckets[resp.val.req.bucket_id].client_id = resp.val.client

(* C6: an upload whose body is larger than the payload's size ceiling is   *)
(* answered 400 "File size exceeds allowed limit" and leaves the           *)
(* filesystem as it was: no directory made, no file created or emptied.    *)
C6_OversizeNoWrite ==
    [][\A r \in Slots, body \in Bodies, fault \in BOOLEAN :
        (/\ reqs[r].op = "UploadFile" /\ reqs[r].pc = "fetched"
         /\ body.size > reqs[r].data.file_size
         /\ UploadStore(r, "file", body, fault)) =>
            /\ resp' = Response("UploadFile", 400, "File size exceeds allowed limit",
                                [token |-> reqs[r].token])
            /\ UNCHANGED <<disk, dirs>>
      ]_vars

(* An oversize upload has been refused while the destination does not      *)
(* exist                                                                   *)
C6_Witness ==
    /\ resp.op = "UploadFile" /\ resp.status = 400
    /\ resp.msg = "File size exceeds allowed limit"
    /\ hist[CacheKey("upload", resp.val.token)].rejected
    /\ disk = <<>> /\ dirs = {}

(* C7: a token that has been refused for size, has not succeeded since and *)
(* is younger than 15 minutes is still in the cache with its payload.      *)
C7_RejectionKeepsToken ==
    \A k \in DOMAIN hist :
        (hist[k].rejected /\ hist[k].ok = 0 /\ now < hist[k].at + 15) =>
            /\ CacheHit(cache, k, now)
            /\ cache[k].data.file_size = files[cache[k].data.file_id].file_size

(* An upload succeeds with a token that was refused for size before        *)
C7_Witness ==
    \E k \in DOMAIN hist :
        /\ hist[k].rejected /\ hist[k].ok = 1
        /\ AnswersTo(k) /\ resp.status = 200

(* C8: once a redemption that transferred bytes (an upload that created    *)
(* its destination file, a download that was served) has ended, whatever   *)
(* its outcome, the token is no longer in the cache.                       *)
C8_TokenDeleted ==
    \A k \in DOMAIN hist :
        ((hist[k].created \/ hist[k].ok > 0) /\ InFlight(k) = {}) => k \notin DOMAIN cache

(* never issued, expired, consumed or live                                 *)
Standing(k) ==
    IF k \notin DOMAIN hist THEN "never"
    ELSE IF hist[k].ok > 0 THEN "consumed"
    ELSE IF now >= hist[k].at + 15 THEN "expired"
    ELSE "live"

C10_FirstInvalidField ==
    [][SignedURLAnswered =>
        LET req == resp'.val.req
        IN  FirstInvalid(req) # 0 =>
                /\ resp'.status = 400
                /\ resp'.msg = FieldMessage(FieldOrder[FirstInvalid(req)])
                /\ UNCHANGED <<files, cache, hist, nextToken, buckets, disk, dirs>>
      ]_vars

(* A request with two or more invalid fields, the key among them, has been *)
(* answered                                                                *)
C10_Witness ==
    /\ resp.op = "GenerateSignedURL" /\ resp.status = 400
    /\ Cardinality(InvalidFields(resp.val.req)) >= 2
    /\ 2 \in InvalidFields(resp.val.req)

----------------------------------------------------------------------------
(* Properties of the bucket gate, of download issuance and of key checks   *)

(* What the gate owes client c asking about bucket id: 0 lets it through   *)
GateVerdict(c, id) ==
    IF id \notin DOMAIN buckets THEN 404
    ELSE IF buckets[id].client_id # c THEN 403
    ELSE IF buckets[id].archived THEN 409
    ELSE 0

(* The step answers a request that reached a bucket gate                   *)
GateAnswered ==
    \/ resp'.op = "GenerateSignedURL" /\ FirstInvalid(resp'.val.req) = 0
    \/ resp'.op = "ListFiles"
    \/ /\ resp'.op = "DeleteFiles"
       /\ resp'.val.req.has_path /\ resp'.val.req.has_bucket_id
       /\ Len(resp'.val.req.file_ids) = 0

GateBucket(r) ==
    IF r.op = "ListFiles" THEN r.val.bucket_id ELSE r.val.req.bucket_id

(* C11: upload issuance, ListFiles and deletion by path answer 404 for an  *)
(* unknown bucket, 403 for a bucket of another client whether archived or  *)
(* not, 409 for the caller's own archived bucket, in that precedence, and  *)
(* a request so refused changes no row, no cache entry and nothing on disk *)
C11_SameGate ==
    [][GateAnswered =>
        LET verdict == GateVerdict(resp'.val.client, GateBucket(resp'))
        IN  verdict # 0 =>
               /\ resp'.status = verdict
               /\ UNCHANGED <<files, cache, disk, dirs>>
      ]_vars

(* Another client's archived bucket: deletion by path of rows that exist   *)
(* there has been refused with 403                                         *)
C11_Witness ==
    /\ resp.op = "DeleteFiles" /\ resp.status = 403
    /\ resp.val.req.has_path
    /\ buckets[resp.val.req.bucket_id].archived
    /\ DeleteByPathQuery(buckets[resp.val.req.bucket_id].client_id,
                         resp.val.req.bucket_id, Trim(resp.val.req.path)) # {}

(* The download tokens a step writes to the cache                          *)
DownloadTokensWritten ==
    {k \in DOMAIN cache' : k[1] = "download" /\ k \notin DOMAIN cache}

(* C12: a download token is written to the cache only when the row exists, *)
(* is not soft-deleted, belongs to the client named in the payload and a   *)
(* file is on disk at the resolved path.                                   *)
C12_FileExists ==
    [][\A k \in DownloadTokensWritten :
          LET d == cache'[k].data
          IN  /\ d.file_id \in DOMAIN files
              /\ ~files[d.file_id].deleted
              /\ files[d.file_id].client_id = d.client_id
              /\ AbsFilePath(d.file_path) \in DOMAIN disk
      ]_vars

(* C13: no download token is written for an object whose bucket is         *)
(* archived; the request is answered 409 instead.                          *)
C13_ArchivedNoDownload ==
    [][/\ \A k \in DownloadTokensWritten : ~buckets[cache'[k].data.bucket_id].archived
       /\ (resp'.op = "GenerateDownloadSignedURL" /\ resp'.status = 201) =>
              ~buckets[files[resp'.val.file_id].bucket_id].archived
      ]_vars

(* A key with a ".." segment                                               *)
HasDotDotSegment(key) ==
    \E n \in DOMAIN Split(key) : Split(key)[n] = DotDot

(* C14: an issuance whose key has a ".." segment is answered 400 and adds  *)
(* neither a row nor a cache entry.                                        *)
C14_DotDotRefused ==
    [][(SignedURLAnswered /\ HasDotDotSegment(resp'.val.req.key)) =>
          /\ resp'.status = 400
          /\ UNCHANGED <<files, cache>>
      ]_vars

----------------------------------------------------------------------------
(* Properties of the listing                                               *)

(* The key of a direct child of the level path: it starts with path and a  *)
(* separator (with nothing, at the root), and what follows is not empty    *)
(* and has no separator                                                    *)
DirectChild(key, path) ==
    LET p == IF path = <<>> THEN <<>> ELSE path \o <<Sep>>
    IN  /\ Len(key) > Len(p)
        /\ SubSeq(key, 1, Len(p)) = p
        /\ \A n \in (Len(p) + 1)..Len(key) : key[n] # Sep

Under(key, path) ==
    LET p == IF path = <<>> THEN <<>> ELSE path \o <<Sep>>
    IN  Len(key) > Len(p) /\ SubSeq(key, 1, Len(p)) = p

LiveRows(b) == {i \in DOMAIN files : files[i].bucket_id = b /\ ~files[i].deleted}

----------------------------------------------------------------------------
(* Properties of the wildcard matchers                                     *)

RECURSIVE Glob(_, _)
(* The whole of string s is pattern with every star replaced by some run,  *)
(* possibly empty, of bytes other than "/"                                 *)
Glob(s, pattern) ==
    IF pattern = <<>> THEN s = <<>>
    ELSE IF pattern[1] = Star
    THEN \/ Glob(s, Tail(pattern))
         \/ s # <<>> /\ s[1] # Slash /\ Glob(Tail(s), pattern)
    ELSE s # <<>> /\ s[1] = pattern[1] /\ Glob(Tail(s), Tail(pattern))

Ascii(s) == \A n \in DOMAIN s : s[n] < 128

(* C15: for a pattern that is none of the three accelerators matchPattern  *)
(* answers true exactly when the whole key is the pattern with each star   *)
(* replaced by a run without "/"; a pattern without a star matches the     *)
(* identical key only.                                                     *)
C15_GlobExact ==
    (resp.op = "matchPattern" /\ resp.val.pattern \notin Accelerators) =>
        resp.val.matched = Glob(resp.val.key, resp.val.pattern)

(* The same for patterns of ASCII bytes, whatever the key                  *)
C15_AsciiGlob ==
    (resp.op = "matchPattern" /\ resp.val.pattern \notin Accelerators /\ Ascii(resp.val.pattern)) =>
        resp.val.matched = Glob(resp.val.key, resp.val.pattern)

(* C16: the patterns "*", "*/*" and "**" match every key, with or without  *)
(* separators.                                                             *)
C16_Accelerators ==
    (resp.op = "matchPattern" /\ resp.val.pattern \in Accelerators) => resp.val.matched

(* An accelerator has matched a key that the general rule would not let    *)
(* it match                                                                *)
C16_Witness ==
    /\ resp.op = "matchPattern" /\ resp.val.pattern \in Accelerators
    /\ resp.val.matched
    /\ ~Glob(resp.val.key, resp.val.pattern)

(* C18: an allowed-origin entry that is the literal "*" allows every       *)
(* origin; any other entry allows exactly the origins that are the entry   *)
(* with each star replaced by a run without "/", matched from end to end.  *)
C18_OriginGlob ==
    resp.op = "isOriginAllowed" =>
        resp.val.matched = (resp.val.allowed = <<Star>> \/ Glob(resp.val.origin, resp.val.allowed))

----------------------------------------------------------------------------
(* Properties of public reads                                              *)

(* The path is public in bucket b: some pattern of the bucket is an        *)
(* accelerator or matches the whole path                                   *)
IsPublic(b, filePath) ==
    \E n \in DOMAIN buckets[b].public_paths :
        LET pattern == Bytes(buckets[b].public_paths[n])
        IN  pattern \in Accelerators \/ Glob(Bytes(filePath), pattern)

(* Where the content of the path lies for bucket b                         *)
PublicContentPath(b, filePath) ==
    Join(<<UploadsRoot, clientName(buckets[b].client_id), buckets[b].name, filePath>>)

(* The path runs through a regular file, so that looking it up fails       *)
ThroughFile(path) == \E a \in Ancestors(Dir(path)) : a \in DOMAIN disk

(* What a public read owes its caller. With strict, every path that is no  *)
(* file is answered 404; without, a path through a regular file is a       *)
(* filesystem failure and answered 500                                     *)
PublicReadRules(v, strict) ==
    LET named == BucketsNamed(v.bucket_name)
        b == v.bucket
        path == PublicContentPath(b, v.file_path)
    IN  /\ resp.status = 200 =>
              /\ b \in named /\ ~buckets[b].archived
              /\ buckets[b].public_paths # <<>> /\ IsPublic(b, v.file_path)
              /\ path \in DOMAIN disk /\ v.body = disk[path]
        /\ named = {} => resp.status = 404 /\ resp.msg = "Bucket not found"
        /\ named # {} =>
              /\ b \in named
              /\ IF buckets[b].archived
                 THEN resp.status = 404 /\ resp.msg = "Bucket not found"
                 ELSE IF ~IsPublic(b, v.file_path)
                 THEN resp.status = 403
                 ELSE IF path \in DOMAIN disk
                 THEN resp.status = 200
                 ELSE IF ~strict /\ ThroughFile(path)
                 THEN resp.status = 500
                 ELSE resp.status = 404 /\ resp.msg = "File not found"

Allowing(v) ==
    {n \in DOMAIN buckets[v.bucket].cors_policy :
        \E k \in DOMAIN buckets[v.bucket].cors_policy[n].allowed_origins :
            LET entry == Bytes(buckets[v.bucket].cors_policy[n].allowed_origins[k])
            IN  isOriginAllowed(Bytes(v.origin), <<entry>>)}

C19_Unallowed ==
    /\ resp.op = "ServePublicFile" /\ resp.status = 200
    /\ resp.val.origin # <<>>
    /\ buckets[resp.val.bucket].cors_policy # <<>>
    /\ Allowing(resp.val) = {}
    /\ DOMAIN resp.val.headers = {}

(* What is left of a key under the level path                              *)
Below(key, path) ==
    LET p == IF path = <<>> THEN <<>> ELSE path \o <<Sep>>
    IN  SubSeq(key, Len(p) + 1, Len(key))

(* The part of a string before its first separator                         *)
FirstSegment(s) ==
    LET at == {n \in DOMAIN s : s[n] = Sep}
    IN  IF at = {} THEN s
        ELSE SubSeq(s, 1, (CHOOSE n \in at : \A k \in at : n <= k) - 1)

(* C21: the folders of a listing are the first segments of the remainders  *)
(* that hold a separator, over the live rows under the path: each name     *)
(* once, in lexicographic order; and every live row under the path is      *)
(* either among the files or stands behind one folder name, never both.    *)
C21_Folders ==
    (resp.op = "ListFiles" /\ resp.status = 200) =>
        LET v == resp.val
            under == {i \in LiveRows(v.bucket_id) : Under(files[i].key, v.path)}
            deep == {i \in under : ~DirectChild(files[i].key, v.path)}
            names == {FirstSegment(Below(files[i].key, v.path)) : i \in deep}
            listed == {v.files[n].id : n \in DOMAIN v.files}
        IN  /\ {v.folders[n] : n \in DOMAIN v.folders} = names
            /\ Len(v.folders) = Cardinality(names)
            /\ \A m, n \in DOMAIN v.folders : m < n => Less(v.folders[m], v.folders[n])
            /\ \A i \in under :
                   (i \in listed) # (FirstSegment(Below(files[i].key, v.path)) \in names /\ i \in deep)

(* A listing with two folders, the rows behind them inserted in the other  *)
(* order                                                                    *)
C21_Witness ==
    /\ resp.op = "ListFiles" /\ resp.status = 200
    /\ Len(resp.val.folders) = 2
    /\ Less(files[2].key, files[1].key)

----------------------------------------------------------------------------
(* Properties of deletion                                                  *)

Elems(seq) == {seq[n] : n \in DOMAIN seq}

(* The step answers a delete request with the three lists                  *)
DeleteAnswered == resp'.op = "DeleteFiles" /\ resp'.status = 200

ByIDs(req) == Len(req.file_ids) > 0

(* The ids a delete request asks to remove: those it names, or those its   *)
(* path resolved to                                                        *)
Requested(c, req) ==
    IF ByIDs(req) THEN Elems(req.file_ids)
    ELSE DeleteByPathQuery(c, req.bucket_id, Trim(req.path))

(* The three lists hold every requested id, each in one list and once      *)
Partitioned(v, requested) ==
    /\ Elems(v.deleted) \cup Elems(v.missing) \cup Elems(v.failed) = requested
    /\ Len(v.deleted) + Len(v.missing) + Len(v.failed) = Cardinality(requested)

(* C22: the lists deleted, missing and failed of every delete response     *)
(* partition the requested ids: each id in exactly one list, once, also    *)
(* when the request names unknown ids or names an id twice.                *)
C22_Partition ==
    [][DeleteAnswered =>
          Partitioned(resp'.val, Requested(resp'.val.client, resp'.val.req))
      ]_vars

(* The same for requests that name no id twice                             *)
C22_PartitionOfDistinct ==
    [][(DeleteAnswered /\ Len(resp'.val.req.file_ids) = Cardinality(Elems(resp'.val.req.file_ids))) =>
          Partitioned(resp'.val, Requested(resp'.val.client, resp'.val.req))
      ]_vars

(* Where the content of row id lies                                        *)
ContentPath(id) ==
    AbsFilePath(ResolveFilePath(clientName(files[id].client_id),
                                buckets[files[id].bucket_id].name, files[id].key))

(* C23: an id is listed deleted only if this request removed its file from *)
(* disk and set its row's tombstone; an id listed failed met a removal     *)
(* error and keeps its row as it was; an id listed missing had no file on  *)
(* disk and keeps its row as it was.                                       *)
C23_Classified ==
    [][DeleteAnswered =>
          LET v == resp'.val
          IN  /\ \A id \in Elems(v.deleted) :
                    /\ ContentPath(id) \in DOMAIN disk /\ ContentPath(id) \notin DOMAIN disk'
                    /\ ~files[id].deleted /\ files'[id].deleted
              /\ \A id \in Elems(v.failed) :
                    /\ files'[id] = files[id]
                    /\ ContentPath(id) \notin DOMAIN disk'
              /\ \A id \in Elems(v.missing) \ Elems(v.deleted) :
                    id \in DOMAIN files => files'[id] = files[id]
      ]_vars

(* The same, counting the removal of whatever lies at the row's path       *)
C23_ClassifiedByRemoval ==
    [][DeleteAnswered =>
          LET v == resp'.val
          IN  /\ \A id \in Elems(v.deleted) :
                    /\ ContentPath(id) \in DOMAIN disk \cup dirs
                    /\ ContentPath(id) \notin DOMAIN disk' \cup dirs'
                    /\ ~files[id].deleted /\ files'[id].deleted
              /\ \A id \in Elems(v.failed) :
                    /\ files'[id] = files[id]
                    /\ ContentPath(id) \notin DOMAIN disk'
              /\ \A id \in Elems(v.missing) \ Elems(v.deleted) :
                    id \in DOMAIN files => files'[id] = files[id]
      ]_vars

StartsWithPath(key, path) ==
    /\ Len(key) >= Len(path) + 1
    /\ SubSeq(key, 1, Len(path) + 1) = path \o <<Sep>>

(* The live rows of client c in bucket b under the path                    *)
LiveUnder(c, b, path) ==
    {i \in DOMAIN files :
        /\ files[i].bucket_id = b /\ files[i].client_id = c /\ ~files[i].deleted
        /\ StartsWithPath(files[i].key, path)}

(* The step answers a deletion by path that passed the bucket gate         *)
DeleteByPathAnswered ==
    /\ resp'.op = "DeleteFiles"
    /\ resp'.val.req.has_path /\ resp'.val.req.has_bucket_id
    /\ Len(resp'.val.req.file_ids) = 0
    /\ GateVerdict(resp'.val.client, resp'.val.req.bucket_id) = 0

(* C25: a deletion by path under which no live object of the bucket lies   *)
(* is answered 400 "No files found at the given path" and removes nothing. *)
C25_NothingUnderPath ==
    [][DeleteByPathAnswered =>
          LET v == resp'.val
          IN  LiveUnder(v.client, v.req.bucket_id, Trim(v.req.path)) = {} =>
                  /\ resp'.status = 400
                  /\ resp'.msg = "No files found at the given path"
                  /\ UNCHANGED <<files, disk, dirs>>
      ]_vars

(* A deletion by path never answers with three empty lists, and when its  *)
(* query finds no row it answers 400 and removes nothing                   *)
C25_NeverEmptySuccess ==
    [][DeleteByPathAnswered =>
          LET v == resp'.val
          IN  /\ resp'.status = 200 => Len(v.deleted) + Len(v.missing) + Len(v.failed) > 0
              /\ DeleteByPathQuery(v.client, v.req.bucket_id, Trim(v.req.path)) = {} =>
                     /\ resp'.status = 400
                     /\ resp'.msg = "No files found at the given path"
                     /\ UNCHANGED <<files, disk, dirs>>
      ]_vars

(* C26: a deletion by path targets exactly the live rows of the bucket and *)
(* client whose key starts with the path and a separator, and changes no   *)
(* other row and no other content.                                          *)
C26_LiteralPrefix ==
    [][(DeleteByPathAnswered /\ resp'.status = 200) =>
          LET v == resp'.val
              under == LiveUnder(v.client, v.req.bucket_id, Trim(v.req.path))
          IN  /\ Elems(v.deleted) \cup Elems(v.missing) \cup Elems(v.failed) = under
              /\ \A i \in DOMAIN files \ under :
                    /\ files'[i] = files[i]
                    /\ ContentPath(i) \in DOMAIN disk => ContentPath(i) \in DOMAIN disk'
      ]_vars

----------------------------------------------------------------------------
(* Properties of bucket management                                         *)

(* The request of the step is an UpdateBucket by the owner of a bucket     *)
(* that is archived                                                        *)
UpdateOfArchived ==
    /\ resp'.op = "UpdateBucket"
    /\ OwnBucket(resp'.val.client, resp'.val.id)
    /\ buckets[resp'.val.id].archived

(* Once a row is archived every step keeps the row and its flag            *)
StaysArchived ==
    \A b \in DOMAIN buckets :
        buckets[b].archived => b \in DOMAIN buckets' /\ buckets'[b].archived

(* ArchiveBucket by the owner of an archived bucket answers 409 and writes *)
(* nothing                                                                 *)
SecondArchiveRefused ==
    \A c \in ClientIDs, id \in DOMAIN buckets :
        (OwnBucket(c, id) /\ buckets[id].archived /\ ArchiveBucket(c, id))
            => /\ resp'.status = 409
               /\ resp'.msg = "Bucket is already archived"
               /\ buckets' = buckets

PassesValidation(req) ==
    req.cors_policy.kind # "malformed" /\ req.public_paths.kind # "malformed"

(* C27 as stated: an archived bucket stays archived and keeps its row,     *)
(* every UpdateBucket of it by its owner is answered 409 and leaves        *)
(* cors_policy and public_paths as they were, and a second ArchiveBucket   *)
(* is answered 409.                                                        *)
C27_ArchivedAbsorbing ==
    [][ /\ StaysArchived
        /\ UpdateOfArchived => resp'.status = 409 /\ buckets' = buckets
        /\ SecondArchiveRefused ]_vars

(* C27: an archived bucket stays archived and keeps its row; an            *)
(* UpdateBucket of it by its owner leaves cors_policy and public_paths as  *)
(* they were and is answered 409 'Cannot update an archived bucket' when   *)
(* its body passes validation and 400 when a field is malformed; a second  *)
(* ArchiveBucket is answered 409.                                          *)
C27_ArchivedAbsorbingValidated ==
    [][ /\ StaysArchived
        /\ UpdateOfArchived =>
               /\ buckets' = buckets
               /\ IF PassesValidation(resp'.val.req)
                  THEN resp'.status = 409 /\ resp'.msg = "Cannot update an archived bucket"
                  ELSE resp'.status = 400
        /\ SecondArchiveRefused ]_vars

(* The owner of an archived bucket has asked for values the row does not   *)
(* hold and was answered 409                                               *)
C27_Witness ==
    /\ resp.op = "UpdateBucket"
    /\ resp.status = 409
    /\ buckets[resp.val.id].archived
    /\ resp.val.req.cors_policy.kind = "array"
    /\ resp.val.req.cors_policy.val # buckets[resp.val.id].cors_policy
    /\ resp.val.req.public_paths.kind = "array"
    /\ resp.val.req.public_paths.val # buckets[resp.val.id].public_paths

(* The bucket exists and belongs to a client other than c                  *)
Foreign(c, id) == id \in DOMAIN buckets /\ buckets[id].client_id # c

NotFoundUnchanged ==
    /\ resp'.status = 404
    /\ resp'.msg = "Bucket not found"
    /\ "bucket" \notin DOMAIN resp'.val
    /\ buckets' = buckets

(* GetBucket and ArchiveBucket with another client's bucket id answer 404  *)
(* 'Bucket not found', show no row and write nothing                       *)
ForeignReadArchive ==
    /\ (resp'.op = "GetBucket" /\ Foreign(resp'.val.client, resp'.val.id))
           => NotFoundUnchanged
    /\ \A c \in ClientIDs, id \in DOMAIN buckets :
           (Foreign(c, id) /\ ArchiveBucket(c, id))
               => resp'.status = 404 /\ resp'.msg = "Bucket not found" /\ buckets' = buckets

ForeignUpdate == resp'.op = "UpdateBucket" /\ Foreign(resp'.val.client, resp'.val.id)

(* C28 as stated: GetBucket, UpdateBucket and ArchiveBucket called with    *)
(* the id of another client's bucket answer 404 'Bucket not found' and     *)
(* leave that bucket's row unchanged.                                      *)
C28_ForeignNotFound ==
    [][ /\ ForeignReadArchive
        /\ ForeignUpdate => NotFoundUnchanged ]_vars

(* C28: GetBucket and ArchiveBucket called with the id of another          *)
(* client's bucket answer 404 'Bucket not found'; UpdateBucket answers     *)
(* 404 'Bucket not found' when its body passes validation and 400 when a   *)
(* field is malformed; none of them shows the row or changes it.           *)
C28_ForeignNotFoundValidated ==
    [][ /\ ForeignReadArchive
        /\ ForeignUpdate =>
               IF PassesValidation(resp'.val.req)
               THEN NotFoundUnchanged
               ELSE /\ resp'.status = 400
                    /\ "bucket" \notin DOMAIN resp'.val
                    /\ buckets' = buckets ]_vars

(* A client has asked to replace both lists of another client's live       *)
(* bucket and was answered 404                                             *)
C28_Witness ==
    /\ resp.op = "UpdateBucket"
    /\ resp.status = 404
    /\ resp.val.id \in DOMAIN buckets
    /\ buckets[resp.val.id].client_id # resp.val.client
    /\ ~buckets[resp.val.id].archived
    /\ resp.val.req.cors_policy.kind = "array"
    /\ resp.val.req.cors_policy.val # buckets[resp.val.id].cors_policy

UpdateAnswered == resp'.op = "UpdateBucket" /\ resp'.status = 200

(* C29: a successful UpdateBucket replaces each list the request carries   *)
(* by the carried value and leaves a list the request does not carry as    *)
(* it was: with only public_paths supplied cors_policy stays, with only    *)
(* cors_policy supplied public_paths stays.                                *)
C29_OnlyCarried ==
    [][ UpdateAnswered =>
            LET id == resp'.val.id
                req == resp'.val.req
            IN  /\ buckets'[id].cors_policy =
                       IF req.cors_policy.kind = "absent"
                       THEN buckets[id].cors_policy ELSE req.cors_policy.val
                /\ buckets'[id].public_paths =
                       IF req.public_paths.kind = "absent"
                       THEN buckets[id].public_paths ELSE req.public_paths.val ]_vars

(* A successful UpdateBucket writes both lists: the carried value, and     *)
(* the empty list for a list the request does not carry                    *)
C29_BothWritten ==
    [][ UpdateAnswered =>
            LET id == resp'.val.id
                req == resp'.val.req
            IN  /\ buckets'[id].cors_policy =
                       IF req.cors_policy.kind = "absent" THEN <<>> ELSE req.cors_policy.val
                /\ buckets'[id].public_paths =
                       IF req.public_paths.kind = "absent" THEN <<>> ELSE req.public_paths.val
                /\ resp'.val.bucket = buckets'[id] ]_vars

----------------------------------------------------------------------------
(* Properties of soft deletion                                             *)

(* C30: an id that a delete request lists as deleted has its tombstone,    *)
(* and a row with a tombstone keeps it in every step, is in no ListFiles   *)
(* result, and every GenerateDownloadSignedURL for it is rejected without  *)
(* a token being drawn or cached.                                          *)
C30_StaysDeleted ==
    [][ /\ DeleteAnswered =>
               \A id \in Elems(resp'.val.deleted) : files'[id].deleted
        /\ \A id \in DOMAIN files :
               files[id].deleted =>
                   /\ id \in DOMAIN files' /\ files'[id].deleted
                   /\ (resp'.op = "ListFiles" /\ resp'.status = 200) =>
                          \A n \in DOMAIN resp'.val.files : resp'.val.files[n].id # id
                   /\ \A c \in ClientIDs :
                          GenerateDownloadSignedURL(c, id) =>
                              /\ resp'.status \in {404, 410}
                              /\ cache' = cache
                              /\ nextToken' = nextToken ]_vars

(* The owner lists a level of a bucket that holds a deleted row of that    *)
(* level                                                                   *)
C30_Witness ==
    /\ resp.op = "ListFiles" /\ resp.status = 200
    /\ \E i \in DOMAIN files :
           /\ files[i].deleted
           /\ files[i].bucket_id = resp.val.bucket_id
           /\ DirectChild(files[i].key, resp.val.path)

----------------------------------------------------------------------------
(* Properties of the origin matcher                                        *)

RECURSIVE GlobAny(_, _)
(* text is the pattern with each star replaced by some string, empty or    *)
(* not, of any bytes                                                       *)
GlobAny(text, pattern) ==
    IF pattern = <<>> THEN text = <<>>
    ELSE IF Head(pattern) = Star
    THEN \E k \in 0..Len(text) : GlobAny(SubSeq(text, k + 1, Len(text)), Tail(pattern))
    ELSE /\ text # <<>>
         /\ Head(text) = Head(pattern)
         /\ GlobAny(Tail(text), Tail(pattern))

(* C33: matchWildcard(origin, pattern) is true exactly when origin is the  *)
(* pattern's literal parts, in order and without overlap, with some        *)
(* string, possibly empty, in place of each star; an entry with a star     *)
(* allows an origin exactly then.                                          *)
C33_FullStringGlob ==
    resp.op = "isOriginAllowed" =>
        /\ matchWildcard(resp.val.origin, resp.val.allowed)
               = GlobAny(resp.val.origin, resp.val.allowed)
        /\ (\E k \in DOMAIN resp.val.allowed : resp.val.allowed[k] = Star)
               => resp.val.matched = GlobAny(resp.val.origin, resp.val.allowed)

----------------------------------------------------------------------------
(* Properties of the cache namespaces                                      *)

(* The step answers a redemption of kind op that presented token t         *)
Redeems(op, t) == resp'.op = op /\ resp'.val.token = t

(* C34: a token issued for upload is answered 401 by DownloadFile, a token *)
(* issued for download is answered 401 by UploadFile, at any time after    *)
(* its issuance, and the attempt leaves the cache as it was.               *)
C34_DisjointNamespaces ==
    [][ \A t \in 1..MaxTokens :
            /\ (CacheKey("upload", t) \in DOMAIN hist /\ Redeems("DownloadFile", t))
                   => /\ resp'.status = 401
                      /\ resp'.msg = "Invalid or expired download token"
                      /\ cache' = cache
            /\ (CacheKey("download", t) \in DOMAIN hist /\ Redeems("UploadFile", t))
                   => /\ resp'.status = 401
                      /\ resp'.msg = "Invalid or expired upload token"
                      /\ cache' = cache ]_vars

(* A live upload token was presented to DownloadFile, was refused and is   *)
(* still live                                                              *)
C34_Witness ==
    /\ resp.op = "DownloadFile" /\ resp.status = 401
    /\ resp.val.token # 0
    /\ CacheHit(cache, CacheKey("upload", resp.val.token), now)

----------------------------------------------------------------------------
(* Properties of deletion: archived buckets, repetition, what remains      *)

(* Row i and the content at its path are after the step what they were     *)
Kept(i) ==
    /\ files'[i] = files[i]
    /\ ContentPath(i) \in DOMAIN disk =>
           /\ ContentPath(i) \in DOMAIN disk'
           /\ disk'[ContentPath(i)] = disk[ContentPath(i)]

(* C36: a delete request, by path or by ids, leaves every row of an        *)
(* archived bucket and the content of its objects as they were.            *)
C36_ArchivedKept ==
    [][ resp'.op = "DeleteFiles" =>
            \A i \in DOMAIN files : buckets[files[i].bucket_id].archived => Kept(i) ]_vars

(* A deletion by path in the caller's archived bucket is answered 409 and  *)
(* changes nothing                                                         *)
C36_ByPathRefused ==
    [][ ( /\ resp'.op = "DeleteFiles"
          /\ Len(resp'.val.req.file_ids) = 0
          /\ resp'.val.req.has_path /\ resp'.val.req.has_bucket_id
          /\ OwnBucket(resp'.val.client, resp'.val.req.bucket_id)
          /\ buckets[resp'.val.req.bucket_id].archived )
        => /\ resp'.status = 409
           /\ resp'.msg = "Cannot delete files in an archived bucket"
           /\ UNCHANGED <<files, disk, dirs>> ]_vars

(* The step answers the request by ids that the answer before it answered  *)
Repeated ==
    /\ resp.op = "DeleteFiles" /\ resp.status = 200 /\ ByIDs(resp.val.req)
    /\ resp'.op = "DeleteFiles"
    /\ resp'.val.client = resp.val.client
    /\ resp'.val.req = resp.val.req

(* C39: a deletion by ids repeated right after it was answered changes no  *)
(* row and nothing on disk, and lists as missing every id the first        *)
(* answer listed as deleted.                                               *)
C39_Idempotent ==
    [][ Repeated =>
            /\ UNCHANGED <<files, disk, dirs>>
            /\ resp'.status = 200
            /\ \A id \in Elems(resp.val.deleted) :
                   /\ id \in Elems(resp'.val.missing)
                   /\ id \notin Elems(resp'.val.deleted) \cup Elems(resp'.val.failed) ]_vars

(* The second answer lists as missing what the first listed as deleted     *)
C39_DeletedThenMissing ==
    [][ Repeated =>
            \A id \in Elems(resp.val.deleted) :
                /\ id \in Elems(resp'.val.missing)
                /\ id \notin Elems(resp'.val.deleted) \cup Elems(resp'.val.failed) ]_vars

(* The step answers a deletion by path with success and nothing failed     *)
ByPathClean ==
    /\ DeleteByPathAnswered
    /\ resp'.status = 200
    /\ resp'.val.failed = <<>>

(* The rows the request's query selected: live before the step             *)
Resolved == DeleteByPathQuery(resp'.val.client, resp'.val.req.bucket_id, Trim(resp'.val.req.path))

----------------------------------------------------------------------------
(* Properties of objects that share a key                                  *)

(* The step is the write of an upload: the request of slot 1 has stored    *)
(* its body                                                                *)
Stores == reqs[1].op = "UploadFile" /\ reqs[1].pc = "fetched" /\ reqs'[1].pc = "stored"

(* The rows of the key and bucket of row id                                *)
SameKey(id) ==
    {i \in DOMAIN files :
        /\ files[i].client_id = files[id].client_id
        /\ files[i].bucket_id = files[id].bucket_id
        /\ files[i].key = files[id].key}

(* C35: no upload writes content while the bucket of its object is         *)
(* archived, also when its token was issued before the bucket was          *)
(* archived.                                                               *)
C35_ArchivedNoWrite ==
    [][ Stores => ~buckets[reqs[1].data.bucket_id].archived ]_vars

(* C32: issuance does not look for a row with the same key, so a valid     *)
(* request on an open bucket of the caller gets a token and a new row      *)
(* next to a row of that key; every row of the key lies at one path; an    *)
(* upload for any of them puts its body there in place of what was there;  *)
(* a download of any of them delivers what is there.                       *)
C32_LastWriterWins ==
    [][ /\ ( /\ resp' # resp
             /\ resp'.op = "GenerateSignedURL"
             /\ ValidateSignedURLRequest(resp'.val.req) = OK
             /\ CheckUploadBucket(resp'.val.client, resp'.val.req.bucket_id).status = 0 )
           => /\ resp'.status = 201
              /\ files' = Append(files, FileRow(Len(files) + 1, resp'.val.client, resp'.val.req))
        /\ Stores =>
               LET path == AbsFilePath(reqs[1].data.file_path)
               IN  /\ disk'[path] \in LifeBodies
                   /\ disk'[path].size = reqs'[1].written
                   /\ \A i \in SameKey(reqs[1].data.file_id) : ContentPath(i) = path
        /\ (resp' # resp /\ resp'.op = "DownloadFile" /\ resp'.status = 200) =>
               /\ resp'.val.body = disk[ContentPath(resp'.val.file_id)]
               /\ \A i \in SameKey(resp'.val.file_id) :
                      disk[ContentPath(i)] = resp'.val.body ]_vars

(* Two live rows hold one key; the first was stored before, the second     *)
(* was issued and uploaded with other content, and a download of the       *)
(* first has delivered the content of the second                           *)
C32_Witness ==
    /\ Len(files) = 2
    /\ files[1].key = files[2].key /\ ~files[1].deleted /\ ~files[2].deleted
    /\ Cardinality({k \in DOMAIN hist : k[1] = "upload"}) = 1
    /\ resp.op = "DownloadFile" /\ resp.status = 200
    /\ resp.val.file_id = 1
    /\ resp.val.body.data = "x"

(* C38: the answer to a live download token depends on what lies at the    *)
(* token's path and not on the object's row: with nothing there it is 404  *)
(* and the token stays in the cache, with content there it is 200 with     *)
(* that content, also when the row is soft-deleted and the content was     *)
(* uploaded for another object of the same key.                            *)
C38_FixedLocation ==
    [][ \A t \in 1..MaxTokens :
            (Redeems("DownloadFile", t) /\ CacheHit(cache, CacheKey("download", t), now)) =>
                LET key == CacheKey("download", t)
                    path == AbsFilePath(cache[key].data.file_path)
                IN  /\ files' = files
                    /\ IF PathExists(path)
                       THEN /\ resp'.status = 200
                            /\ resp'.val.body = Streamed(path)
                            /\ cache' = CacheDelete(cache, key)
                       ELSE /\ resp'.status = 404
                            /\ cache' = cache ]_vars

(* A token issued for an object that has since been soft-deleted has       *)
(* delivered content that was uploaded for a later object of the same key  *)
C38_Witness ==
    /\ Len(files) = 2
    /\ files[1].deleted
    /\ resp.op = "DownloadFile" /\ resp.status = 200
    /\ resp.val.file_id = 1
    /\ resp.val.body.data = "x"
    /\ Cardinality({k \in DOMAIN hist : k[1] = "upload"}) = 1

----------------------------------------------------------------------------
(* Properties of storage per client                                        *)

(* The content that lies for row id, if any                                *)
ContentOf(d, id) == IF ContentPath(id) \in DOMAIN d THEN d[ContentPath(id)] ELSE NoVal

(* C37: objects of two distinct clients never lie at one physical path.    *)
C37_DistinctPaths ==
    \A i, j \in DOMAIN files :
        files[i].client_id # files[j].client_id => ContentPath(i) # ContentPath(j)

(* C37, its consequence: an upload made for one client leaves the content *)
(* of every other client's object as it was.                               *)
C37_NoForeignOverwrite ==
    [][ Stores =>
            \A j \in DOMAIN files :
                files[j].client_id # reqs[1].data.client_id =>
                    ContentOf(disk', j) = ContentOf(disk, j) ]_vars

----------------------------------------------------------------------------
(* Properties of rows whose upload was never completed                     *)

(* The ids a listing names as files                                        *)
ListedIds(val) == {val.files[n].id : n \in DOMAIN val.files}

(* C31: the row of an issued upload token is in the table when the token   *)
(* is in the cache; rows are never taken out of the table and change only  *)
(* by the tombstone that DeleteFiles sets, so redeeming a token, having it *)
(* rejected and letting it expire leave the rows as they are; a listing of *)
(* the bucket's root names every live row of the root, whether its content *)
(* was stored and whether its token is live.                               *)
C31_RowOutlivesToken ==
    [][ /\ Len(files') >= Len(files)
        /\ \A i \in DOMAIN files :
               \/ files'[i] = files[i]
               \/ /\ files'[i] = [files[i] EXCEPT !.deleted = TRUE]
                  /\ resp' # resp /\ resp'.op = "DeleteFiles"
        /\ \A k \in DOMAIN cache' :
               k[1] = "upload" =>
                   /\ cache'[k].data.file_id \in DOMAIN files'
                   /\ files'[cache'[k].data.file_id].key = LifeKey
        /\ (resp' # resp /\ resp'.op = "GenerateSignedURL" /\ resp'.status = 201) =>
               /\ Len(files') = Len(files) + 1
               /\ resp'.val.file_id = Len(files')
               /\ ~files'[resp'.val.file_id].deleted
               /\ CacheKey("upload", resp'.val.token) \in DOMAIN cache'
        /\ (resp' # resp /\ resp'.op = "ListFiles" /\ resp'.status = 200) =>
               ListedIds(resp'.val) =
                   {i \in DOMAIN files : files[i].bucket_id = 1 /\ ~files[i].deleted} ]_vars

(* A listing has named a row whose token expired unredeemed and whose      *)
(* content was never stored                                                *)
C31_Witness ==
    /\ resp.op = "ListFiles" /\ resp.status = 200
    /\ 1 \in ListedIds(resp.val)
    /\ disk = <<>>
    /\ \E k \in DOMAIN hist :
           /\ k[1] = "upload" /\ hist[k].ok = 0
           /\ ~CacheHit(cache, k, now)
====
